---- MODULE Spec2Model ----
(***************************************************************************)
(* SatoshisEndgame surveillance pipeline: the block monitor                *)
(* (src/services/block_monitor.py), the provider coordinator, its adapters *)
(* and their rate limiter (src/core/blockchain.py), the alert gate         *)
(* (src/services/notification_service.py) and the emergency detector       *)
(* (src/services/quantum_detector.py), modelled as state machines.         *)
(*                                                                         *)
(* Python values are encoded as follows.                                   *)
(*   Optional[int]  : None is -1 (heights are >= 0).                       *)
(*   an awaited call that raises instead of returning an int : -2.         *)
(*   Optional[str]  : None (or a missing 'address' key) is "None".         *)
(*   Optional[Dict] / Optional[record] : a sequence of length 0 or 1.      *)
(* Timestamps are passed through by the code unchanged and are left out of *)
(* the block and movement records.                                         *)
(***************************************************************************)
EXTENDS Integers, Sequences, FiniteSets, TLC

\* ------------------------------------------------------------------ bounds
MaxTip == 3
MaxCalls == 3
MaxTx == 2
MaxOps == 3
MaxChunks == 2
MaxExtra == 1
MaxRate == 2
MaxArrive == 2
MaxAcquires == 4
MaxEmissions == 3
MaxClock == 4
MaxActivities == 5
MaxHalfMinutes == 2
MaxWallets == 21
MaxYears == 11
MaxHighValue == 4
MaxInputs == 2
MaxExtension == 2
MaxDays == 3
MaxSenders == 3
MaxGrouped == 3
MaxRegular == 7

\* ------------------------------------------------------------ value domains
None == -1
Raise == -2
NoAddr == "None"
Addresses == {"a1", "a2"}
EntryAddrs == Addresses \cup {NoAddr}
Heights == 0..MaxTip
TipOutcomes == Heights \cup {None, Raise}

SeqsUpTo(S, n) == UNION {[1..k -> S] : k \in 0..n}
Range(s) == {s[i] : i \in DOMAIN s}

Entries == [address : EntryAddrs, value : {1}]
TxHashes == <<"tx1", "tx2", "tx3">>
\* a transaction has at most one input and at most one output
Txs(k) == [hash : {TxHashes[k]}, inputs : SeqsUpTo(Entries, 1),
           outputs : SeqsUpTo(Entries, 1)]
BlocksOf(max) == UNION {{b \in [1..n -> UNION {Txs(k) : k \in 1..n}] :
                           \A k \in 1..n : b[k] \in Txs(k)} : n \in 0..max}
Blocks == BlocksOf(MaxTx)

\* what the awaited blockchain.get_block(height) can produce
OutcomesOver(B) == {[kind |-> "none"], [kind |-> "raise"]}
                     \cup {[kind |-> "block", transactions |-> b] : b \in B}
BlockOutcomes == OutcomesOver(Blocks)
\* the blocks the monitored chain is made of: at most one transaction
ChainBlocks == BlocksOf(1)
ChainOutcomes == OutcomesOver(ChainBlocks)
\* the blocks of the chain a BlockMonitoringService watches: empty, or one
\* transaction spending from a1
ServiceBlocks == {b \in ChainBlocks : \A k \in DOMAIN b :
                    /\ b[k].outputs = <<>> /\ b[k].inputs # <<>>
                    /\ b[k].inputs[1].address = "a1"}
ServiceOutcomes == OutcomesOver(ServiceBlocks)
\* what the awaited blockchain.get_address_info(address) can produce
InfoOutcomes == {[kind |-> "none"], [kind |-> "raise"], [kind |-> "info", balance |-> 7]}

Perms(S) == {p \in [1..Cardinality(S) -> S] :
               \A i, j \in 1..Cardinality(S) : p[i] = p[j] => i = j}

\* the direct caller of a BlockMonitorService is task 0; the tasks that
\* BlockMonitoringService.start() creates are tasks 1 and 2
Caller == 0
Loops == {1, 2}
Tasks == {Caller} \cup Loops

\* the rate limiter: its callers, the rates it is built with, and the clock.
\* One second is TicksPerSecond ticks; the rates divide it, so that every
\* sleep of acquire() is a whole number of ticks
LimiterCallers == {"c1", "c2", "c3"}
TicksPerSecond == MaxRate
Rates == {r \in 1..MaxRate : TicksPerSecond % r = 0}
\* no sleep is longer than a second: callers arrive until MaxArrive, and
\* MaxAcquires sleeps end before Horizon
Horizon == MaxArrive + TicksPerSecond * MaxAcquires
NoHolder == "none"

\* ------------------------------------------------------------------- state
VARIABLES
  last_block_height,   \* BlockMonitorService.last_block_height
  dormant_addresses,   \* BlockMonitorService.dormant_addresses
  _running,            \* BlockMonitoringService._running
  pc,                  \* position of each task
  frame,               \* locals of the check_new_blocks() invocation of each task
  call,                \* history: what the direct caller's current/last invocation did
  ncalls,              \* history: number of check_new_blocks() invocations begun
  h0,                  \* history: first cursor value that was established
  fetched,             \* history: how often get_block was awaited with each height
  init_tip,            \* history: what initialize() got for the tip
  apis,                \* BlockchainManager.apis
  request_counts,      \* BlockchainManager.request_counts
  coord,               \* history: the last coordinator operation
  nops,                \* history: number of coordinator operations
  pb,                  \* the last _process_block applied on its own, with its result
  batch,               \* the last BlockchainManager.get_addresses_batch, with its result
  now,                 \* time.monotonic(), in ticks
  rate,                \* RateLimiter.rate, tokens per second (0: not constructed)
  tokens,              \* RateLimiter.tokens, in units of 1/TicksPerSecond token
  last_update,         \* RateLimiter.last_update, in ticks
  lock,                \* RateLimiter.lock: its holder and its FIFO of waiters
  acq,                 \* position of each caller of RateLimiter.acquire()
  wake,                \* when the asyncio.sleep of each caller is due
  nacq,                \* history: number of acquire() calls begun
  completed,           \* history: number of acquire() calls that returned at each tick
  slept,               \* history: number of acquire() calls that returned after sleeping
  utcnow,              \* datetime.utcnow(), in ticks
  recent_alerts,       \* DiscordNotificationService.recent_alerts
  emission,            \* history: the last send_alert() call and what it did
  window,              \* history: per key, the emissions since the one that last passed the gate
  surge,               \* the last analyze_recent_activity applied, with its result
  sev,                 \* the last _calculate_severity applied, with its result
  am,                  \* the last _analyze_address_movement applied on its own, with its result
  journal,             \* history: the failures the monitoring loops met, the movements
                       \* check_new_blocks() returned to them and those they committed
  is_active,           \* the addresses whose Wallet row has is_active = True
  refreshed,           \* history: the last step on the tracked set was initialize()
  wallet,              \* the Wallet row of the polled address (<<>>: no row)
  today,               \* datetime.utcnow(), in days
  activity,            \* the last _process_address_update applied, with its result
  scan,                \* the _process_block in progress, with its locals
  senders              \* position and alert of each send_alert() call in progress

vars == <<last_block_height, dormant_addresses, _running, pc, frame, call,
          ncalls, h0, fetched, init_tip, apis, request_counts, coord, nops, pb,
          batch, now, rate, tokens, last_update, lock, acq, wake, nacq,
          completed, slept, utcnow, recent_alerts, emission, window, surge, sev, am, journal,
          is_active, refreshed, wallet, today, activity, scan, senders>>
monitorVars == <<last_block_height, dormant_addresses, _running, pc, frame,
                 call, ncalls, h0, fetched, init_tip, journal>>
coordVars == <<apis, request_counts, coord, nops>>
\* the state of the components added after the monitor and the coordinator
limiterVars == <<now, rate, tokens, last_update, lock, acq, wake, nacq,
                 completed, slept>>
alertVars == <<utcnow, recent_alerts, emission, window>>
detectorVars == <<surge, sev>>
analysisVars == <<am>>
trackedVars == <<is_active, refreshed>>
pollingVars == <<wallet, today, activity>>
concurrentVars == <<scan, senders>>
laterVars == <<batch, limiterVars, alertVars, detectorVars, analysisVars, trackedVars,
               pollingVars, concurrentVars>>
otherVars == <<apis, request_counts, coord, nops, pb, laterVars>>

\* ----------------------------------------------------------- pure helpers
\* Python truthiness of an Optional[int] (`if not self.last_block_height`)
Truthy(x) == x # None /\ x # 0
\* Python truthiness of inp.get('address')
AddrTruthy(a) == a # NoAddr /\ a # ""

RECURSIVE Concat(_)
Concat(ss) == IF ss = <<>> THEN <<>> ELSE Head(ss) \o Concat(Tail(ss))

RECURSIVE SumAmounts(_)
SumAmounts(s) == IF s = <<>> THEN 0 ELSE Head(s).amount + SumAmounts(Tail(s))

EntryAddresses(es) == {es[i].address : i \in {j \in DOMAIN es : AddrTruthy(es[j].address)}}

\* a slip: only the spending side is looked at
_extract_addresses_inputs_only(block) ==
  UNION {EntryAddresses(tx.inputs) : tx \in Range(block.transactions)}

_extract_addresses_from_block(block) ==
  UNION {EntryAddresses(tx.inputs) \cup EntryAddresses(tx.outputs) :
           tx \in Range(block.transactions)}

\* the entries of one transaction that reference the address, inputs first
TxRelevant(tx, address) ==
  LET ins == SelectSeq(tx.inputs, LAMBDA e : e.address = address)
      outs == SelectSeq(tx.outputs, LAMBDA e : e.address = address)
  IN  [i \in DOMAIN ins |-> [tx_id |-> tx.hash, type |-> "spend", amount |-> ins[i].value]]
      \o [i \in DOMAIN outs |-> [tx_id |-> tx.hash, type |-> "receive", amount |-> outs[i].value]]

\* a slip: every entry counts as moved
total_moved_of_all(relevant_txs) == SumAmounts(relevant_txs)

\* line 191: sum(tx['amount'] for tx in relevant_txs if tx['type'] == 'spend')
total_moved(relevant_txs) ==
  SumAmounts(SelectSeq(relevant_txs, LAMBDA t : t.type = "spend"))

\* line 191 raises TypeError when the value of a spend is None
SumRaises(relevant_txs) ==
  \E i \in DOMAIN relevant_txs :
     relevant_txs[i].type = "spend" /\ relevant_txs[i].amount = None

\* lines 163-183
relevant_txs_of(address, block) ==
  Concat([k \in DOMAIN block.transactions |-> TxRelevant(block.transactions[k], address)])

\* a slip: no test of `relevant_txs` before the movement is built
_analyze_address_movement_unchecked(address, block, block_height, info) ==
  IF info.kind # "info" THEN <<>>
  ELSE LET relevant_txs == relevant_txs_of(address, block)
       IN  IF SumRaises(relevant_txs) THEN <<>>
           ELSE <<[address |-> address,
                   block_height |-> block_height,
                   previous_balance |-> info.balance,
                   transactions |-> relevant_txs,
                   total_moved |-> total_moved(relevant_txs)]>>

\* returns <<movement>> or <<>> (None): None when get_address_info gave none
\* (line 159), when no entry is relevant (line 185) and when anything raised
\* (line 195)
_analyze_address_movement(address, block, block_height, info) ==
  IF info.kind # "info" THEN <<>>
  ELSE LET relevant_txs == relevant_txs_of(address, block)
       IN  IF relevant_txs = <<>> THEN <<>>
           ELSE IF SumRaises(relevant_txs) THEN <<>>
           ELSE <<[address |-> address,
                   block_height |-> block_height,
                   previous_balance |-> info.balance,
                   transactions |-> relevant_txs,
                   total_moved |-> total_moved(relevant_txs)]>>

\* a slip: the loop over the addresses ends at the first one without movement
RECURSIVE AnalyzeEach_until_absent(_, _, _, _, _)
AnalyzeEach_until_absent(order, i, block, block_height, infos) ==
  IF i > Len(order) THEN [movements |-> <<>>, analysed |-> {}]
  ELSE LET movement == _analyze_address_movement(order[i], block, block_height,
                                                 infos[order[i]])
           rest == AnalyzeEach_until_absent(order, i + 1, block, block_height, infos)
       IN  IF movement = <<>> THEN [movements |-> <<>>, analysed |-> {order[i]}]
           ELSE [movements |-> movement \o rest.movements,
                 analysed |-> {order[i]} \cup rest.analysed]

\* lines 111-125, from the i-th address of the iteration on: the movements
\* appended and the addresses _analyze_address_movement was called for
RECURSIVE AnalyzeEach(_, _, _, _, _)
AnalyzeEach(order, i, block, block_height, infos) ==
  IF i > Len(order) THEN [movements |-> <<>>, analysed |-> {}]
  ELSE LET movement == _analyze_address_movement(order[i], block, block_height,
                                                 infos[order[i]])
           rest == AnalyzeEach(order, i + 1, block, block_height, infos)
       IN  [movements |-> movement \o rest.movements,
            analysed |-> {order[i]} \cup rest.analysed]

\* a slip: no catch-all around the fetch, so a failed block raises to the caller
_process_block_raising(block_height, out, order, infos, dormant) ==
  IF out.kind # "block"
    THEN [movements |-> <<>>, analysed |-> {}, failed |-> TRUE, raised |-> TRUE]
  ELSE LET each == AnalyzeEach(order, 1, out, block_height, infos)
       IN  [movements |-> each.movements, analysed |-> each.analysed,
            failed |-> FALSE, raised |-> FALSE]

\* _process_block under one outcome of get_block, one iteration order of the
\* set active_dormant and one outcome of get_address_info per address;
\* `analysed` is the set of addresses _analyze_address_movement was called for
_process_block(block_height, out, order, infos, dormant) ==
  IF out.kind # "block"
    THEN [movements |-> <<>>, analysed |-> {}, failed |-> TRUE, raised |-> FALSE]
  ELSE LET each == AnalyzeEach(order, 1, out, block_height, infos)
       IN  [movements |-> each.movements, analysed |-> each.analysed,
            failed |-> FALSE, raised |-> FALSE]

active_dormant(out, dormant) ==
  IF out.kind # "block" THEN {} ELSE _extract_addresses_from_block(out) \cap dormant

\* reference definitions the monitor's history is compared with
AllEntries(out) ==
  IF out.kind # "block" THEN {}
  ELSE UNION {Range(tx.inputs) \cup Range(tx.outputs) : tx \in Range(out.transactions)}
PresentAddresses(out) == {e.address : e \in AllEntries(out)} \ {NoAddr}
HasAbsentEntry(out) == \E e \in AllEntries(out) : e.address = NoAddr


NoOp == [op |-> "none"]

\* -------------------------------------------------------------- initial state
NoFrame == [current_height |-> None, height |-> None, movements |-> <<>>]
NoCall == [st |-> "none", tip |-> None, prev_tip |-> None, L |-> None, entered |-> FALSE,
           log |-> <<>>, ret |-> <<>>, same |-> 0]

Init ==
  /\ last_block_height = None
  /\ dormant_addresses = {}
  /\ _running = FALSE
  /\ pc = [t \in Tasks |-> IF t = Caller THEN "new" ELSE "none"]
  /\ frame = [t \in Tasks |-> NoFrame]
  /\ call = NoCall
  /\ ncalls = 0
  /\ h0 = None
  /\ init_tip = None
  /\ fetched = [h \in Heights |-> 0]
  /\ apis = <<>>
  /\ request_counts = [successful |-> 0, failed |-> 0, total |-> 0]
  /\ coord = NoOp
  /\ nops = 0
  /\ pb = [n |-> 0]
  /\ batch = [n |-> 0]
  /\ now = 0
  /\ rate = 0
  /\ tokens = 0
  /\ last_update = 0
  /\ lock = [holder |-> NoHolder, waiters |-> <<>>]
  /\ acq = [c \in LimiterCallers |-> "idle"]
  /\ wake = [c \in LimiterCallers |-> 0]
  /\ nacq = 0
  /\ completed = [t \in 0..Horizon |-> 0]
  /\ slept = 0
  /\ utcnow = 0
  /\ recent_alerts = <<>>
  /\ emission = [n |-> 0]
  /\ window = <<>>
  /\ surge = [n |-> 0]
  /\ sev = [n |-> 0]
  /\ am = [n |-> 0]
  /\ journal = [failed |-> {}, returned |-> {}, committed |-> {}]
  /\ is_active = {}
  /\ refreshed = FALSE
  /\ wallet = <<>>
  /\ today = 0
  /\ activity = [n |-> 0]
  /\ scan = [pc |-> "idle"]
  /\ senders = <<>>

\* ------------------------------------------------------ BlockMonitorService
FirstCursor(new) == IF h0 = None THEN new ELSE h0

\* initialize(): loads the active addresses, then reads the tip (lines 33-48)
initialize(active, tip) ==
  /\ dormant_addresses' = active
  /\ last_block_height' = IF tip = Raise THEN last_block_height ELSE tip
  /\ h0' = FirstCursor(last_block_height')
  /\ init_tip' = tip

\* where a task goes when check_new_blocks() returns `movements` to it:
\* the direct caller is idle again; a monitoring loop persists a non-empty
\* list (lines 262-269) and then sleeps (line 275)
After(t, movements) ==
  IF t = Caller THEN "idle" ELSE IF movements # <<>> THEN "persist" ELSE "sleep"

\* the locals of an invocation that has returned: a monitoring loop keeps the
\* returned list in its own local `movements` (line 260) until it has
\* persisted it
Returning(t, movements) ==
  [NoFrame EXCEPT !.movements = IF After(t, movements) = "persist" THEN movements ELSE <<>>]

\* the history is kept of the direct caller's invocations
Note(t, c) == call' = IF t = Caller THEN c ELSE call

\* the history of the monitoring loops: the failures met and the movements
\* returned, each movement given by its address and height
MovementKeys(movements) ==
  {<<movements[i].address, movements[i].block_height>> : i \in DOMAIN movements}
Journal(t, failures, movements) ==
  journal' = IF t \in Loops
               THEN [journal EXCEPT !.failed = @ \cup failures,
                                    !.returned = @ \cup MovementKeys(movements)]
             ELSE journal

\* check_new_blocks() up to its first await (lines 52-56); the count of
\* invocations stops at MaxCalls
check_new_blocks_enter(t) ==
  /\ ncalls' = IF ncalls < MaxCalls THEN ncalls + 1 ELSE ncalls
  /\ pc' = [pc EXCEPT ![t] = "await_tip"]
  /\ frame' = [frame EXCEPT ![t] = NoFrame]
  /\ Note(t, [NoCall EXCEPT !.st = "running", !.same = call.same, !.prev_tip = call.tip])

\* at most MaxCalls invocations are explored
check_new_blocks_begin(t) == ncalls < MaxCalls /\ check_new_blocks_enter(t)

\* line 58: `if not self.last_block_height`
CursorUnset(last) == ~Truthy(last)
\* a slip: the range starts at the cursor itself
FirstHeight_from_cursor(last) == last
\* line 72: first height of range(self.last_block_height + 1, current_height + 1)
FirstHeight(last) == last + 1

\* a slip: the cursor is not advanced after the loop
CursorAfterLoop_stuck(last, current_height) == last
\* line 76: self.last_block_height = current_height
CursorAfterLoop(last, current_height) == current_height

Streak(tip) ==
  IF tip = last_block_height /\ tip \in Heights
    THEN (IF call.same < 2 THEN call.same + 1 ELSE 2) ELSE 0

\* the invocation returns the empty list without entering the loop
ReturnEmpty(t, tip) ==
  /\ pc' = [pc EXCEPT ![t] = After(t, <<>>)]
  /\ Note(t, [call EXCEPT !.st = "returned", !.tip = tip, !.L = last_block_height,
                           !.ret = <<>>, !.same = Streak(tip)])
  /\ frame' = [frame EXCEPT ![t] = Returning(t, <<>>)]

\* get_latest_block_height() returned (or raised): lines 56-72
TipReturn(t, tip) ==
  /\ pc[t] = "await_tip"
  /\ IF tip = Raise                              \* caught at line 78
       THEN /\ ReturnEmpty(t, tip)
            /\ UNCHANGED <<last_block_height, h0>>
     ELSE IF CursorUnset(last_block_height)      \* lines 58-60
       THEN /\ last_block_height' = tip
            /\ h0' = FirstCursor(tip)
            /\ ReturnEmpty(t, tip)
     ELSE IF tip = None                          \* None > int: TypeError, line 78
       THEN /\ ReturnEmpty(t, tip)
            /\ UNCHANGED <<last_block_height, h0>>
     ELSE IF tip > last_block_height             \* lines 63-72
       THEN /\ frame' = [frame EXCEPT ![t] = [current_height |-> tip,
                                               height |-> FirstHeight(last_block_height),
                                               movements |-> <<>>]]
            /\ Note(t, [call EXCEPT !.tip = tip, !.L = last_block_height,
                                     !.entered = TRUE, !.same = 0])
            /\ pc' = [pc EXCEPT ![t] = "await_block"]
            /\ UNCHANGED <<last_block_height, h0>>
     ELSE /\ ReturnEmpty(t, tip)
          /\ UNCHANGED <<last_block_height, h0>>
  /\ Journal(t, IF tip \in {Raise, None} THEN {"tip"} ELSE {}, <<>>)
  /\ UNCHANGED <<dormant_addresses, _running, ncalls, init_tip, fetched, otherVars>>

\* one iteration of the loop of lines 72-74: get_block(height) returned (or
\* raised) and _process_block ran to its end; an exception escaping
\* _process_block is caught at line 78; after the last height, line 76
BlockReturn(t, out, order, infos) ==
  /\ pc[t] = "await_block"
  /\ LET f == frame[t]
         r == _process_block(f.height, out, order, infos, dormant_addresses)
         movements == f.movements \o r.movements
         entry == [height |-> f.height, failed |-> r.failed, movements |-> r.movements]
         failures == (IF r.failed THEN {"block"} ELSE {})
                       \cup (IF \E a \in DOMAIN infos : infos[a].kind # "info"
                               THEN {"info"} ELSE {})
     IN  /\ fetched' = [fetched EXCEPT ![f.height] = @ + 1]
         /\ Journal(t, failures,
                    IF r.raised THEN f.movements
                    ELSE IF f.height < f.current_height THEN <<>> ELSE movements)
         /\ IF r.raised
              THEN /\ pc' = [pc EXCEPT ![t] = After(t, f.movements)]
                   /\ Note(t, [call EXCEPT !.st = "returned", !.log = Append(@, entry),
                                            !.ret = f.movements])
                   /\ frame' = [frame EXCEPT ![t] = Returning(t, f.movements)]
                   /\ UNCHANGED last_block_height
            ELSE IF f.height < f.current_height
              THEN /\ frame' = [frame EXCEPT ![t].height = f.height + 1,
                                             ![t].movements = movements]
                   /\ Note(t, [call EXCEPT !.log = Append(@, entry)])
                   /\ UNCHANGED <<last_block_height, pc>>
              ELSE /\ last_block_height' = CursorAfterLoop(last_block_height, f.current_height)
                   /\ frame' = [frame EXCEPT ![t] = Returning(t, movements)]
                   /\ pc' = [pc EXCEPT ![t] = After(t, movements)]
                   /\ Note(t, [call EXCEPT !.st = "returned", !.log = Append(@, entry),
                                            !.ret = movements])
  /\ UNCHANGED <<dormant_addresses, _running, ncalls, h0, init_tip, otherVars>>

\* ------------------------------------------------- the monitor, called directly
\* (scripts/test_block_monitoring.py: initialize() once, then check_new_blocks()
\* again and again, each call awaited before the next)
CallerInitialize ==
  \E active \in SUBSET Addresses, tip \in TipOutcomes :
    /\ pc[Caller] = "new"
    /\ initialize(active, tip)
    /\ pc' = [pc EXCEPT ![Caller] = "idle"]
    /\ UNCHANGED <<_running, frame, call, ncalls, fetched, journal, otherVars>>

CallCheck ==
  /\ pc[Caller] \in {"new", "idle"}
  /\ check_new_blocks_begin(Caller)
  /\ UNCHANGED <<last_block_height, dormant_addresses, _running, h0, init_tip,
                 fetched, journal, otherVars>>

CallerTip == \E tip \in TipOutcomes : TipReturn(Caller, tip)

\* the outcomes one _process_block can meet: the block, the order in which the
\* set active_dormant is iterated, what get_address_info yields per address
BlockStep(t, outcomes) ==
  \E out \in outcomes :
    \E order \in Perms(active_dormant(out, dormant_addresses)),
       infos \in [active_dormant(out, dormant_addresses) -> InfoOutcomes] :
      BlockReturn(t, out, order, infos)

CallerBlock == BlockStep(Caller, ChainOutcomes)

Next == CallerInitialize \/ CallCheck \/ CallerTip \/ CallerBlock

Spec == Init /\ [][Next]_vars

\* ======================================================================
\* Properties of the monitor called directly (specification Spec)
\* ======================================================================
Returned == call.st = "returned"
Fetched == {h \in Heights : fetched[h] > 0}
LogHeights == [i \in DOMAIN call.log |-> call.log[i].height]
LogMovements == Concat([i \in DOMAIN call.log |-> call.log[i].movements])

\* C1: across check_new_blocks() calls last_block_height, once set, never
\* decreases and never goes back to unset.
C1_CursorMonotone ==
  [][last_block_height # None =>
       (last_block_height' # None /\ last_block_height' >= last_block_height)]_vars

\* C2: every height is fetched at most once, and between calls the heights
\* ever attempted are exactly those in (h0, last_block_height].
C2_AtMostOnce ==
  /\ \A h \in Heights : fetched[h] <= 1
  /\ pc[Caller] \in {"new", "idle"} =>
       Fetched = {h \in Heights : h0 # None /\ h > h0 /\ h <= last_block_height}

\* C3: a call that finds the cursor set to L and a tip T > L processes exactly
\* L+1..T in ascending order, returns the concatenation of their movements and
\* ends with last_block_height = T.
C3_ProcessesRange ==
  (Returned /\ call.L # None /\ call.tip \in Heights /\ call.tip > call.L) =>
    /\ LogHeights = [i \in 1..(call.tip - call.L) |-> call.L + i]
    /\ call.ret = LogMovements
    /\ last_block_height = call.tip

\* C4: a call that is told the tip the cursor already stands at (no new
\* block), and the second of two calls that are told the same tip, return the
\* empty list, fetch nothing and leave last_block_height unchanged.
C4_Idempotent ==
  (Returned /\ call.tip \in Heights /\ (call.tip = call.L \/ call.tip = call.prev_tip)) =>
    /\ call.ret = <<>>
    /\ call.log = <<>>
    /\ last_block_height = call.L

\* two calls in a row were told the tip the cursor stood at, after blocks
\* had been processed up to it, and both have returned
C4_Witness ==
  /\ Returned /\ call.same = 2
  /\ call.tip = call.prev_tip /\ call.tip > 0
  /\ Fetched # {}

\* C5: the first cursor value is the tip initialize() observed or, when
\* initialize() got none (and left the cursor unset without raising), the tip
\* observed by a check_new_blocks() that returns the empty list without
\* fetching a block; no block at or below that value is ever fetched.
C5_NoBackfill ==
  /\ [](\A h \in Fetched : h0 # None /\ h > h0)
  /\ [][(pc[Caller] = "new" /\ pc'[Caller] = "idle") =>
          /\ last_block_height' = (IF init_tip' \in Heights THEN init_tip' ELSE None)
          /\ h0' = last_block_height']_vars
  /\ [][(h0 = None /\ h0' # None /\ pc[Caller] # "new") =>
          /\ Fetched' = {}
          /\ Returned' /\ call'.ret = <<>> /\ call'.log = <<>>
          /\ call'.tip = h0' /\ last_block_height' = h0']_vars

\* initialize() got no tip, a later call established the cursor, and the
\* block right above it has been fetched since
C5_Witness ==
  /\ init_tip \in {None, Raise} /\ pc[Caller] = "idle"
  /\ h0 \in Heights /\ h0 + 1 \in Fetched

\* C6: in a call that iterates over L+1..T, a height whose fetch or processing
\* failed contributes no movements, every height of the range is still
\* processed, and last_block_height ends at T.
C6_FailureIsolated ==
  (Returned /\ call.entered) =>
    /\ LogHeights = [i \in 1..(call.tip - call.L) |-> call.L + i]
    /\ \A i \in DOMAIN call.log : call.log[i].failed => call.log[i].movements = <<>>
    /\ call.ret = LogMovements
    /\ last_block_height = call.tip

\* a call whose first block failed and whose last block produced a movement
C6_Witness ==
  /\ Returned /\ call.entered /\ Len(call.log) >= 2
  /\ call.log[1].failed
  /\ call.log[Len(call.log)].movements # <<>>
  /\ call.ret # <<>>

\* ======================================================================
\* _process_block applied to one block (specification SpecBlock)
\* ======================================================================
ProcessOneBlock ==
  /\ pb.n = 0 /\ am.n = 0
  /\ \E dormant \in SUBSET Addresses, out \in BlockOutcomes, height \in {1, MaxTip} :
      \E order \in Perms(active_dormant(out, dormant)),
         infos \in [active_dormant(out, dormant) -> InfoOutcomes] :
        LET r == _process_block(height, out, order, infos, dormant)
        IN  /\ pb' = [n |-> 1, height |-> height, got |-> out.kind = "block",
                      tracked |-> dormant, present |-> PresentAddresses(out),
                      absent |-> HasAbsentEntry(out), failed |-> r.failed,
                      order |-> order, infos |-> infos,
                      analysed |-> r.analysed, movements |-> r.movements]
            /\ UNCHANGED <<monitorVars, coordVars, laterVars>>

\* the blocks one address is analysed in: a transaction of up to MaxInputs
\* inputs and one output, of any values, followed by one of a few others
ValuedInputs == [address : EntryAddrs, value : {1, 2}]
                  \cup {[address |-> "a1", value |-> None]}
ValuedOutputs == {[address |-> "a1", value |-> 4], [address |-> "a2", value |-> 4],
                  [address |-> "a1", value |-> None]}
FirstTxs == [hash : {TxHashes[1]}, inputs : SeqsUpTo(ValuedInputs, MaxInputs),
             outputs : SeqsUpTo(ValuedOutputs, 1)]
SecondTxs == {[hash |-> TxHashes[2], inputs |-> <<>>, outputs |-> <<>>],
              [hash |-> TxHashes[2], inputs |-> <<[address |-> "a1", value |-> 8]>>,
               outputs |-> <<>>],
              [hash |-> TxHashes[2], inputs |-> <<>>,
               outputs |-> <<[address |-> "a1", value |-> 8]>>]}

\* _analyze_address_movement applied to one address and one block
AnalyzeAddressMovement ==
  /\ pb.n = 0 /\ am.n = 0
  /\ \E address \in Addresses, first \in FirstTxs, then \in SecondTxs,
        info \in InfoOutcomes, height \in {1, MaxTip} :
       LET block == [kind |-> "block", transactions |-> <<first, then>>]
       IN  am' = [n |-> 1, address |-> address, block |-> block, info |-> info,
                  block_height |-> height,
                  result |-> _analyze_address_movement(address, block, height, info)]
  /\ UNCHANGED <<monitorVars, coordVars, pb, batch, limiterVars, alertVars, detectorVars,
                 trackedVars, pollingVars, concurrentVars>>

NextBlock == ProcessOneBlock \/ AnalyzeAddressMovement

SpecBlock == Init /\ [][NextBlock]_vars

\* C8: the addresses _process_block analyses are exactly the present
\* addresses of the block's inputs and outputs that are tracked; entries
\* without an address are skipped and raise no error.
C8_MatcherIsIntersection ==
  pb.n = 1 =>
    /\ pb.got => (~pb.failed /\ pb.analysed = pb.present \cap pb.tracked)
    /\ ~pb.got => pb.analysed = {}

\* a block with an entry without address, a tracked and an untracked address
C8_Witness ==
  /\ pb.n = 1 /\ pb.got /\ pb.absent
  /\ pb.analysed # {} /\ pb.analysed # pb.present

\* ======================================================================
\* BlockMonitoringService: start(), stop() and the monitoring loops
\* (specification SpecService)
\* ======================================================================
FreeSlot(t) == pc[t] = "none" /\ \A u \in Loops : u < t => pc[u] # "none"

\* start(): initialize(), _running = True, create_task(_monitoring_loop())
Start ==
  \E active \in SUBSET Addresses, tip \in TipOutcomes, t \in Loops :
    /\ FreeSlot(t)
    /\ initialize(active, tip)
    /\ _running' = TRUE
    /\ pc' = [pc EXCEPT ![t] = "scheduled"]
    /\ UNCHANGED <<frame, call, ncalls, fetched, journal, otherVars>>

\* stop()
Stop ==
  /\ _running
  /\ _running' = FALSE
  /\ UNCHANGED <<last_block_height, dormant_addresses, pc, frame, call, ncalls,
                 h0, init_tip, fetched, journal, otherVars>>

\* a slip: the loop does not test _running
LoopTopWith_forever(t, bounded) ==
  /\ pc[t] \in {"scheduled", "sleep"}
  /\ IF bounded THEN check_new_blocks_begin(t) ELSE check_new_blocks_enter(t)
  /\ UNCHANGED <<last_block_height, dormant_addresses, _running, h0, init_tip,
                 fetched, journal, otherVars>>

\* `while self._running` (line 257), evaluated when the task first runs and
\* each time it wakes from asyncio.sleep
LoopTopWith(t, bounded) ==
  /\ pc[t] \in {"scheduled", "sleep"}
  /\ IF _running
       THEN IF bounded THEN check_new_blocks_begin(t) ELSE check_new_blocks_enter(t)
       ELSE /\ pc' = [pc EXCEPT ![t] = "ended"]
            /\ UNCHANGED <<frame, call, ncalls>>
  /\ UNCHANGED <<last_block_height, dormant_addresses, _running, h0, init_tip,
                 fetched, journal, otherVars>>

LoopTop(t) == LoopTopWith(t, TRUE)

\* _process_movements(movements) commits what it wrote (line 318), or raises
\* and the session is rolled back (database.py:98-103)
PersistOutcomes == {"committed", "raised"}

\* a slip: what _process_movements raises ends the loop
AfterPersist_uncaught(outcome) == IF outcome = "raised" THEN "ended" ELSE "sleep"
\* lines 269-275: returned or raised (caught at line 271), the loop sleeps
AfterPersist(outcome) == "sleep"

Persist(t) ==
  \E outcome \in PersistOutcomes :
    /\ pc[t] = "persist"
    /\ pc' = [pc EXCEPT ![t] = AfterPersist(outcome)]
    /\ journal' = IF outcome = "committed"
                    THEN [journal EXCEPT !.committed = @ \cup MovementKeys(frame[t].movements)]
                  ELSE [journal EXCEPT !.failed = @ \cup {"persist"}]
    /\ frame' = [frame EXCEPT ![t] = NoFrame]
    /\ UNCHANGED <<last_block_height, dormant_addresses, _running, call,
                   ncalls, h0, init_tip, fetched, otherVars>>

LoopWake == \E t \in Loops : LoopTop(t)
LoopTip == \E t \in Loops, tip \in TipOutcomes : TipReturn(t, tip)
LoopBlock == \E t \in Loops : BlockStep(t, ServiceOutcomes)
LoopPersist == \E t \in Loops : Persist(t)

NextService == Start \/ Stop \/ LoopWake \/ LoopTip \/ LoopBlock \/ LoopPersist

SpecService == Init /\ [][NextService]_vars

\* one start() of the service and its monitoring loop; every await of the
\* loop returns or raises in the end (the provider calls have a timeout, the
\* sleep of line 275 ends), and the event loop runs the task again, for as
\* long as the service runs
StartOnce == (\A t \in Loops : pc[t] = "none") /\ Start
LoopTick == \E t \in Loops : LoopTopWith(t, FALSE)

NextLoop == StartOnce \/ Stop \/ LoopTick \/ LoopTip \/ LoopBlock \/ LoopPersist

SpecLoop ==
  /\ Init /\ [][NextLoop]_vars
  /\ WF_vars(LoopTick) /\ WF_vars(LoopTip) /\ WF_vars(LoopBlock) /\ WF_vars(LoopPersist)

ActiveLoops == {t \in Loops : pc[t] \notin {"none", "ended"}}
InCheck == {t \in Tasks : pc[t] \in {"await_tip", "await_block"}}

\* C7: whatever start() and stop() calls are made, at most one monitoring
\* loop is active, no two check_new_blocks() invocations are in progress at
\* once, and no height is processed twice.
C7_SingleLoop ==
  /\ Cardinality(ActiveLoops) <= 1
  /\ Cardinality(InCheck) <= 1
  /\ \A h \in Heights : fetched[h] <= 1

\* ======================================================================
\* BlockchainManager, the provider coordinator (specification SpecCoordinator)
\* ======================================================================
ApiNames == {"BlockchairAPI", "BlockCypherAPI"}
\* one adapter call returns, raises BlockchainAPIError, or raises another
\* exception (a response body of an unexpected shape)
AdapterOutcomes == {"ok", "error", "other"}

Value(api) == [kind |-> "value", from |-> api]
Unavailable == [kind |-> "unavailable", from |-> ""]
Placeholder == [kind |-> "placeholder", from |-> ""]

\* `for api in self.apis: try: return await api.op(...)
\*  except BlockchainAPIError: continue`, from adapter i on
RECURSIVE TryApis(_, _, _)
TryApis(as, oc, i) ==
  IF i > Len(as) THEN [invoked |-> <<>>, status |-> "all_failed", result |-> Unavailable]
  ELSE IF oc[as[i]] = "ok"
    THEN [invoked |-> <<as[i]>>, status |-> "ok", result |-> Value(as[i])]
  ELSE IF oc[as[i]] = "error"
    THEN [TryApis(as, oc, i + 1) EXCEPT !.invoked = <<as[i]>> \o @]
  ELSE [invoked |-> <<as[i]>>, status |-> "raised", result |-> Unavailable]

Outcome(r, counts) ==
  [invoked |-> r.invoked, result |-> r.result, counts |-> counts,
   status |-> IF r.status = "raised" THEN "raised" ELSE "returned"]

\* a slip: every failing adapter is counted as a failed request
get_address_info_counting_adapters(as, oc, counts) ==
  LET r == TryApis(as, oc, 1)
      nfail == Cardinality({i \in DOMAIN r.invoked : oc[r.invoked[i]] = "error"})
  IN  Outcome(r, [counts EXCEPT !.failed = @ + nfail,
                                !.successful = @ + (IF r.status = "ok" THEN 1 ELSE 0)])

get_address_info(as, oc, counts) ==
  LET r == TryApis(as, oc, 1)
  IN  Outcome(r, IF r.status = "ok" THEN [counts EXCEPT !.successful = @ + 1]
                 ELSE IF r.status = "all_failed" THEN [counts EXCEPT !.failed = @ + 1]
                 ELSE counts)

get_recent_transactions(as, oc, counts) == Outcome(TryApis(as, oc, 1), counts)

\* the body of the loop returns the placeholder before any adapter is called
get_block(as, oc, counts) ==
  [invoked |-> <<>>, status |-> "returned", counts |-> counts,
   result |-> IF as = <<>> THEN Unavailable ELSE Placeholder]

get_latest_block_height(as, oc, counts) ==
  [invoked |-> <<>>, status |-> "returned", counts |-> counts,
   result |-> IF as = <<>> THEN Unavailable ELSE Placeholder]

\* success_rate (a rounded float) is left out
get_request_stats(counts, as) ==
  [total_requests |-> counts.successful + counts.failed,
   successful |-> counts.successful,
   failed |-> counts.failed,
   primary_api |-> IF as # <<>> THEN as[1] ELSE "None",
   fallback_apis |-> IF Len(as) > 1 THEN Tail(as) ELSE <<>>]

\* BlockchainManager.initialize(): the adapter with an API key goes first
ManagerInitialize ==
  /\ apis = <<>>
  /\ apis' \in {<<"BlockchairAPI", "BlockCypherAPI">>, <<"BlockCypherAPI", "BlockchairAPI">>}
  /\ UNCHANGED <<monitorVars, request_counts, coord, nops, pb, laterVars>>

Operation(name, oc, r) ==
  /\ nops < MaxOps
  /\ nops' = nops + 1
  /\ request_counts' = r.counts
  /\ coord' = [op |-> name, apis |-> apis, outcomes |-> oc, invoked |-> r.invoked,
               status |-> r.status, result |-> r.result,
               before |-> get_request_stats(request_counts, apis),
               after |-> get_request_stats(r.counts, apis)]
  /\ UNCHANGED <<monitorVars, apis, pb, laterVars>>

GetAddressInfo ==
  \E oc \in [ApiNames -> AdapterOutcomes] :
    Operation("get_address_info", oc, get_address_info(apis, oc, request_counts))
GetRecentTransactions ==
  \E oc \in [ApiNames -> AdapterOutcomes] :
    Operation("get_recent_transactions", oc, get_recent_transactions(apis, oc, request_counts))
GetBlock ==
  \E oc \in [ApiNames -> AdapterOutcomes] :
    Operation("get_block", oc, get_block(apis, oc, request_counts))
GetLatestBlockHeight ==
  \E oc \in [ApiNames -> AdapterOutcomes] :
    Operation("get_latest_block_height", oc, get_latest_block_height(apis, oc, request_counts))

NextCoordinator ==
  ManagerInitialize \/ GetAddressInfo \/ GetRecentTransactions \/ GetBlock
    \/ GetLatestBlockHeight

SpecCoordinator == Init /\ [][NextCoordinator]_vars

FirstFailsSecondSucceeds ==
  /\ Len(coord.apis) = 2
  /\ coord.outcomes[coord.apis[1]] = "error"
  /\ coord.outcomes[coord.apis[2]] = "ok"

\* C9: in every coordinator operation adapter i is invoked only after adapters
\* before it failed with a ProviderError, the result is that of the first
\* adapter that succeeds, none after it is invoked, and when all adapters fail
\* the operation returns unavailable instead of raising.
C9_OrderedFallback ==
  coord.op # "none" =>
    LET ap == coord.apis
        oc == coord.outcomes
        n == Len(coord.invoked)
    IN  /\ n <= Len(ap) /\ coord.invoked = SubSeq(ap, 1, n)
        /\ \A j \in 1..(n - 1) : oc[ap[j]] = "error"
        /\ \A i \in DOMAIN ap :
             (oc[ap[i]] = "ok" /\ \A j \in 1..(i - 1) : oc[ap[j]] = "error") =>
               /\ coord.status = "returned" /\ coord.result = Value(ap[i])
               /\ n = i
        /\ (\A i \in DOMAIN ap : oc[ap[i]] = "error") =>
             coord.status = "returned" /\ coord.result = Unavailable

C32_NoExceptionPropagates ==
  coord.op # "none" => coord.status = "returned"

\* ======================================================================
\* Batch lookups: BlockchainManager.get_addresses_batch over the two
\* adapters (specification SpecBatch)
\* ======================================================================
\* BlockchairAPI.get_addresses_batch: addresses per request
batch_size == 100

\* a batch is the list of its addresses, which are numbered here
AddressList(n) == [i \in 1..n |-> i]
BatchLengths == {c * batch_size + e : c \in 0..MaxChunks, e \in 0..MaxExtra}
\* len(range(0, n, batch_size))
NChunks(n) == (n + batch_size - 1) \div batch_size

\* what the providers answer: at Blockchair each request of one chunk
\* returns ("ok") or raises BlockchainAPIError ("error"); at BlockCypher the
\* lookups of the addresses in `failing` raise BlockchainAPIError
FailingSets(n) == {S \cap (1..n) : S \in {{}, {1}, {n}, 2..n, 1..n}}
Upstreams(n) == [chunk : [1..NChunks(n) -> {"ok", "error"}], failing : FailingSets(n)]

\* lines 142-159 from request k on: a request that raises ends the method
RECURSIVE BlockchairChunks(_, _, _)
BlockchairChunks(addresses, chunk, k) ==
  IF (k - 1) * batch_size >= Len(addresses) THEN [raised |-> FALSE, results |-> <<>>]
  ELSE IF chunk[k] = "error" THEN [raised |-> TRUE, results |-> <<>>]
  ELSE LET last == IF k * batch_size < Len(addresses) THEN k * batch_size
                   ELSE Len(addresses)
           rest == BlockchairChunks(addresses, chunk, k + 1)
       IN  IF rest.raised THEN rest
           ELSE [raised |-> FALSE,
                 results |-> SubSeq(addresses, (k - 1) * batch_size + 1, last) \o rest.results]

BlockchairAPI_get_addresses_batch(addresses, up) ==
  BlockchairChunks(addresses, up.chunk, 1)

\* lines 237-245: a lookup that raises is logged and skipped
BlockCypherAPI_get_addresses_batch(addresses, up) ==
  [raised |-> FALSE, results |-> SelectSeq(addresses, LAMBDA a : a \notin up.failing)]

AdapterBatch(api, addresses, up) ==
  IF api = "BlockchairAPI" THEN BlockchairAPI_get_addresses_batch(addresses, up)
  ELSE BlockCypherAPI_get_addresses_batch(addresses, up)

\* lines 351-378, from adapter i on
RECURSIVE TryBatch(_, _, _, _)
TryBatch(as, addresses, up, i) ==
  IF i > Len(as) THEN [invoked |-> <<>>, status |-> "all_failed", result |-> <<>>]
  ELSE LET r == AdapterBatch(as[i], addresses, up)
       IN  IF r.raised
             THEN [TryBatch(as, addresses, up, i + 1) EXCEPT !.invoked = <<as[i]>> \o @]
           ELSE [invoked |-> <<as[i]>>, status |-> "ok", result |-> r.results]

get_addresses_batch(as, addresses, up, counts) ==
  LET r == TryBatch(as, addresses, up, 1)
  IN  [invoked |-> r.invoked, status |-> r.status, result |-> r.result,
       counts |-> IF r.status = "ok"
                    THEN [counts EXCEPT !.successful = @ + Len(addresses)]
                  ELSE [counts EXCEPT !.failed = @ + Len(addresses)]]

\* one batch lookup, of any batch against any provider behaviour
GetAddressesBatch ==
  /\ batch.n = 0
  /\ \E n \in BatchLengths : \E up \in Upstreams(n) :
       LET addresses == AddressList(n)
           r == get_addresses_batch(apis, addresses, up, request_counts)
       IN  /\ request_counts' = r.counts
           /\ batch' = [n |-> batch.n + 1, apis |-> apis, addresses |-> addresses,
                        up |-> up, invoked |-> r.invoked, status |-> r.status,
                        result |-> r.result,
                        adapter |-> [a \in ApiNames |-> AdapterBatch(a, addresses, up)]]
  /\ nops' = nops + 1
  /\ UNCHANGED <<monitorVars, apis, coord, pb, limiterVars, alertVars, detectorVars, analysisVars, trackedVars, pollingVars, concurrentVars>>

NextBatch == ManagerInitialize \/ GetAddressesBatch

SpecBatch == Init /\ [][NextBatch]_vars

\* the addresses an adapter obtained from its provider in a batch: at
\* Blockchair those of the requests made before the first one that raised
RECURSIVE OkPrefix(_, _)
OkPrefix(chunk, k) ==
  IF k \in DOMAIN chunk /\ chunk[k] = "ok" THEN OkPrefix(chunk, k + 1) ELSE k - 1
Obtained(api, addresses, up) ==
  IF api = "BlockchairAPI"
    THEN {addresses[i] : i \in {j \in DOMAIN addresses :
                                  j <= OkPrefix(up.chunk, 1) * batch_size}}
  ELSE Range(addresses) \ up.failing

\* C11: an adapter that obtained part of the batch ends the lookup: what it
\* obtained is returned and no later adapter is consulted; an adapter that
\* obtained nothing of a non-empty batch is followed by the next adapter.
C11_FallbackIffWholeBatchFailed ==
  batch.n > 0 =>
    \A i \in DOMAIN batch.invoked :
      LET got == Obtained(batch.invoked[i], batch.addresses, batch.up)
      IN  /\ got # {} => /\ Len(batch.invoked) = i
                         /\ batch.status = "ok"
                         /\ Range(batch.result) = got
          /\ (got = {} /\ batch.addresses # <<>> /\ i < Len(batch.apis)) =>
               Len(batch.invoked) > i

\* what a call of an adapter's get_addresses_batch hands to its caller
HandedBack(r) == IF r.raised THEN {} ELSE Range(r.results)

\* C12: a failed lookup (of an address, or of a request chunk) does not abort
\* an adapter's get_addresses_batch: every address the adapter obtained is in
\* what it returns.
C12_SuccessfulSubsetReturned ==
  batch.n > 0 =>
    \A a \in ApiNames :
      Obtained(a, batch.addresses, batch.up) \subseteq HandedBack(batch.adapter[a])

\* ======================================================================
\* RateLimiter, the token bucket of each adapter (specifications
\* SpecLimiter and SpecLimiterLive)
\* ======================================================================
Min(a, b) == IF a < b THEN a ELSE b

\* RateLimiter.__init__ (lines 45-49)
RateLimiterInit ==
  /\ rate = 0
  /\ \E r \in Rates : /\ rate' = r
                      /\ tokens' = r * TicksPerSecond
  /\ last_update' = now
  /\ lock' = [holder |-> NoHolder, waiters |-> <<>>]
  /\ UNCHANGED <<now, acq, wake, nacq, completed, slept>>
  /\ UNCHANGED <<monitorVars, coordVars, pb, batch, alertVars, detectorVars, analysisVars, trackedVars, pollingVars, concurrentVars>>

\* asyncio.Lock.release(): the lock passes to the first waiter
release_forgetting_waiters(l) == [holder |-> NoHolder, waiters |-> l.waiters]

release(l) ==
  IF l.waiters = <<>> THEN [holder |-> NoHolder, waiters |-> <<>>]
  ELSE [holder |-> Head(l.waiters), waiters |-> Tail(l.waiters)]

\* line 55
refill(tok, elapsed) == Min(rate * TicksPerSecond, tok + elapsed * rate)
\* line 59, in ticks
sleep_time(tok) == (TicksPerSecond - tok) \div rate

\* the acquire() of caller c returns at time `now`
Return(c, afterSleep) ==
  /\ acq' = [acq EXCEPT ![c] = "idle"]
  /\ completed' = [completed EXCEPT ![now] = @ + 1]
  /\ slept' = slept + (IF afterSleep THEN 1 ELSE 0)

\* lines 53-63 up to the sleep, run by caller c holding the lock as in l
Bucket(c, l) ==
  LET refilled == refill(tokens, now - last_update)
  IN  /\ last_update' = now
      /\ IF refilled < TicksPerSecond
           THEN /\ tokens' = refilled
                /\ wake' = [wake EXCEPT ![c] = now + sleep_time(refilled)]
                /\ acq' = [acq EXCEPT ![c] = "sleeping"]
                /\ lock' = l
                /\ UNCHANGED <<completed, slept>>
         ELSE /\ tokens' = refilled - TicksPerSecond
              /\ lock' = release(l)
              /\ Return(c, FALSE)
              /\ UNCHANGED wake

\* a caller calls acquire(): it takes the free lock and goes on without
\* yielding, or queues for the lock (line 52)
Acquire(c) ==
  /\ rate > 0 /\ acq[c] = "idle"
  /\ nacq < MaxAcquires /\ now <= MaxArrive
  /\ nacq' = nacq + 1
  /\ IF lock.holder = NoHolder
       THEN Bucket(c, [lock EXCEPT !.holder = c])
     ELSE /\ lock' = [lock EXCEPT !.waiters = Append(@, c)]
          /\ acq' = [acq EXCEPT ![c] = "waiting"]
          /\ UNCHANGED <<tokens, last_update, wake, completed, slept>>
  /\ UNCHANGED <<now, rate>>
  /\ UNCHANGED <<monitorVars, coordVars, pb, batch, alertVars, detectorVars, analysisVars, trackedVars, pollingVars, concurrentVars>>

\* a waiter that was handed the lock runs
Resume(c) ==
  /\ acq[c] = "waiting" /\ lock.holder = c
  /\ Bucket(c, lock)
  /\ UNCHANGED <<now, rate, nacq>>
  /\ UNCHANGED <<monitorVars, coordVars, pb, batch, alertVars, detectorVars, analysisVars, trackedVars, pollingVars, concurrentVars>>

\* the sleep of line 60 is over: line 61, and the lock is released
Wake(c) ==
  /\ acq[c] = "sleeping" /\ now >= wake[c]
  /\ tokens' = 0
  /\ lock' = release(lock)
  /\ Return(c, TRUE)
  /\ UNCHANGED <<now, rate, last_update, wake, nacq>>
  /\ UNCHANGED <<monitorVars, coordVars, pb, batch, alertVars, detectorVars, analysisVars, trackedVars, pollingVars, concurrentVars>>

\* time passes: freely while callers may still arrive, and afterwards for
\* as long as a sleep is not over
Tick ==
  /\ rate > 0
  /\ \/ now < MaxArrive
     \/ \E c \in LimiterCallers : acq[c] = "sleeping" /\ now < wake[c]
  /\ now < Horizon
  /\ now' = now + 1
  /\ UNCHANGED <<rate, tokens, last_update, lock, acq, wake, nacq, completed, slept>>
  /\ UNCHANGED <<monitorVars, coordVars, pb, batch, alertVars, detectorVars, analysisVars, trackedVars, pollingVars, concurrentVars>>

NextLimiter ==
  \/ RateLimiterInit
  \/ \E c \in LimiterCallers : Acquire(c)
  \/ \E c \in LimiterCallers : Resume(c)
  \/ \E c \in LimiterCallers : Wake(c)
  \/ Tick

SpecLimiter == Init /\ [][NextLimiter]_vars

\* the event loop runs every task that is ready and fires every timer that
\* is due, and the clock goes on
SpecLimiterLive ==
  /\ SpecLimiter
  /\ WF_vars(Tick)
  /\ \A c \in LimiterCallers : WF_vars(Resume(c)) /\ WF_vars(Wake(c))

RECURSIVE CompletedIn(_, _)
CompletedIn(a, b) == IF a > b THEN 0 ELSE completed[a] + CompletedIn(a + 1, b)

\* C13: in every interval of T seconds at most rate + rate * T acquire()
\* calls return (both sides multiplied by TicksPerSecond).
C13_RateBounded ==
  \A a \in 0..now : \A b \in a..now :
    TicksPerSecond * CompletedIn(a, b) <= rate * TicksPerSecond + rate * (b - a)

Sleeping == {c \in LimiterCallers : acq[c] = "sleeping"}
\* the steps on the bucket exclude each other, also across the sleep
BucketExclusive ==
  /\ Cardinality(Sleeping) <= 1
  /\ \A c \in Sleeping : lock.holder = c
\* 0 <= tokens <= rate
TokensInRange == 0 <= tokens /\ tokens <= rate * TicksPerSecond
\* the quota there has been since the limiter was built: its capacity, and
\* rate tokens for every second since; no more acquire() calls than that can
\* have returned if each consumed a unit of its own
QuotaNotSharedOut ==
  TicksPerSecond * CompletedIn(0, now) <= rate * TicksPerSecond + rate * now

\* C14: with concurrent callers the steps on the bucket are mutually exclusive
\* (also across the sleep), the token count stays within [0, rate], and no
\* unit of quota is consumed by two callers.
C14_BucketSerialized == BucketExclusive /\ TokensInRange /\ QuotaNotSharedOut

InAcquire == {c \in LimiterCallers : acq[c] # "idle"}
\* C15: every acquire() call returns: a caller in acquire() is eventually out
\* of it, and no sleep it is made to wait for is longer than 1/rate seconds.
C15_AcquireReturns ==
  /\ \A c \in LimiterCallers : (acq[c] # "idle") ~> (acq[c] = "idle")
  /\ [](\A c \in Sleeping : wake[c] - last_update <= TicksPerSecond \div rate)

\* every acquire() call has returned, two of them after sleeping, the last
\* one later than any caller arrived
C15_Witness ==
  /\ nacq = MaxAcquires /\ InAcquire = {}
  /\ slept >= 2 /\ CompletedIn(0, now) = MaxAcquires
  /\ \E t \in (MaxArrive + 1)..Horizon : completed[t] > 0

\* ======================================================================
\* DiscordNotificationService: the cooldown gate of send_alert
\* (specification SpecAlerts)
\* ======================================================================
\* settings.alert_cooldown_minutes as a timedelta, in ticks of utcnow
cooldown_period == 2

\* the alerts that are sent: NotificationAlert.pattern is an Optional[str]
Alert(type, pattern, wallets) ==
  [alert_type |-> type, pattern |-> pattern, wallet_addresses |-> wallets]
Alerts == {Alert("quantum_emergency", "dormant_wallet_surge", <<"a1">>),
           Alert("quantum_emergency", "dormant_wallet_surge", <<"a2">>),
           Alert("quantum_emergency", "dormant_wallet_surge", <<"a1", "a2">>),
           Alert("wallet_anomaly", "statistical_anomaly", <<"a1">>),
           Alert("wallet_anomaly", NoAddr, <<"a1">>)}
\* webhook.execute() answers 204, or anything else
WebhookOutcomes == {"204", "500"}

\* a slip: the key is made of the wallets, not of their number
alert_key_of_first_wallet(alert) ==
  alert.alert_type \o ":" \o alert.pattern \o ":" \o alert.wallet_addresses[1]

\* line 90: the f-string of alert type, pattern and number of wallets
alert_key(alert) ==
  alert.alert_type \o ":" \o alert.pattern \o ":" \o ToString(Len(alert.wallet_addresses))

\* recent_alerts[key] = t
Record(recent, key, t) ==
  [k \in DOMAIN recent \cup {key} |-> IF k = key THEN t ELSE recent[k]]

\* a slip: the time is recorded before the cooldown is looked at
_should_send_alert_restarting(alert, recent, t) ==
  LET key == alert_key(alert)
  IN  [send |-> ~(key \in DOMAIN recent /\ t - recent[key] < cooldown_period),
       recent_alerts |-> Record(recent, key, t)]

\* a slip: the gate does not record the time; it is left to be written after
\* the awaits of the caller
_should_send_alert_recording_later(alert, recent, t) ==
  LET key == alert_key(alert)
  IN  [send |-> ~(key \in DOMAIN recent /\ t - recent[key] < cooldown_period),
       recent_alerts |-> recent]

\* lines 87-105, at time t
_should_send_alert(alert, recent, t) ==
  LET key == alert_key(alert)
  IN  IF key \in DOMAIN recent /\ t - recent[key] < cooldown_period
        THEN [send |-> FALSE, recent_alerts |-> recent]
      ELSE [send |-> TRUE, recent_alerts |-> Record(recent, key, t)]

\* a slip: a suppressed alert is posted all the same
send_alert_ungated(alert, recent, t, webhook) ==
  LET gate == _should_send_alert(alert, recent, t)
  IN  [recent_alerts |-> gate.recent_alerts, posted |-> TRUE,
       returned |-> gate.send /\ webhook = "204"]

\* lines 182-226: `posted` says whether webhook.execute() was awaited
send_alert(alert, recent, t, webhook) ==
  LET gate == _should_send_alert(alert, recent, t)
  IN  IF ~gate.send
        THEN [recent_alerts |-> gate.recent_alerts, posted |-> FALSE, returned |-> FALSE]
      ELSE [recent_alerts |-> gate.recent_alerts, posted |-> TRUE,
            returned |-> webhook = "204"]

NoWindow == [alert |-> Alert("", "", <<>>), at |-> None,
             emitted |-> 0, posted |-> 0, delivered |-> 0]

\* one send_alert() call, at the time utcnow
SendAlert ==
  /\ emission.n < MaxEmissions
  /\ \E alert \in Alerts : \E webhook \in WebhookOutcomes :
       LET r == send_alert(alert, recent_alerts, utcnow, webhook)
           key == alert_key(alert)
           before == IF key \in DOMAIN recent_alerts THEN recent_alerts[key] ELSE None
           delivered == r.posted /\ webhook = "204"
           prev == IF key \in DOMAIN window THEN window[key] ELSE NoWindow
           \* the time of the key was recorded: its cooldown starts
           w == IF r.recent_alerts[key] # before
                  THEN [alert |-> alert, at |-> utcnow, emitted |-> 1,
                        posted |-> IF r.posted THEN 1 ELSE 0,
                        delivered |-> IF delivered THEN 1 ELSE 0]
                ELSE [prev EXCEPT !.emitted = @ + 1,
                                  !.posted = @ + (IF r.posted THEN 1 ELSE 0),
                                  !.delivered = @ + (IF delivered THEN 1 ELSE 0)]
       IN  /\ recent_alerts' = r.recent_alerts
           /\ window' = [k \in DOMAIN window \cup {key} |-> IF k = key THEN w ELSE window[k]]
           /\ emission' = [n |-> emission.n + 1, alert |-> alert, key |-> key,
                           at |-> utcnow, webhook |-> webhook, before |-> before,
                           prev |-> prev, posted |-> r.posted, returned |-> r.returned]
  /\ UNCHANGED utcnow
  /\ UNCHANGED <<monitorVars, coordVars, pb, batch, limiterVars, detectorVars, analysisVars, trackedVars, pollingVars, concurrentVars>>

\* the wall clock goes on
Elapse ==
  /\ utcnow < MaxClock
  /\ utcnow' = utcnow + 1
  /\ UNCHANGED <<recent_alerts, emission, window>>
  /\ UNCHANGED <<monitorVars, coordVars, pb, batch, limiterVars, detectorVars, analysisVars, trackedVars, pollingVars, concurrentVars>>

NextAlerts == SendAlert \/ Elapse

SpecAlerts == Init /\ [][NextAlerts]_vars

\* the emission came when its key had a time recorded, within the cooldown
\* of that time or after it
InCooldown == emission.before # None /\ emission.at - emission.before < cooldown_period
AfterCooldown == emission.before # None /\ emission.at - emission.before >= cooldown_period

\* C16 as stated: of the emissions of one key within a cooldown window
\* exactly one is delivered to the webhook, and an emission of the key made
\* after the cooldown has elapsed is delivered.
C16_ExactlyOneDelivered ==
  /\ \A k \in DOMAIN window : window[k].emitted >= 2 => window[k].delivered = 1
  /\ (emission.n > 0 /\ AfterCooldown) => emission.returned

\* C16 amended: of the emissions of one key within a cooldown window exactly
\* one, the first, is posted to the webhook, and the others are suppressed
\* without reaching it; an emission of the key made after the cooldown has
\* elapsed is posted again; a posted alert is delivered (send_alert returns
\* True) exactly when the webhook answers 204, and is not posted again if not.
C16_ExactlyOnePosted ==
  /\ \A k \in DOMAIN window :
       /\ window[k].posted = 1 /\ window[k].delivered <= 1
       /\ window[k].at = recent_alerts[k]
  /\ emission.n > 0 =>
       /\ InCooldown => ~emission.posted
       /\ AfterCooldown => emission.posted
       /\ emission.returned <=> (emission.posted /\ emission.webhook = "204")

\* the third emission of a key: the second was suppressed within the
\* cooldown, this one came after it and was delivered
C16_Witness ==
  /\ emission.n = 3 /\ AfterCooldown /\ emission.returned
  /\ emission.prev.emitted = 2 /\ emission.prev.posted = 1

\* C17: a suppressed emission leaves the time recorded for its key unchanged,
\* so the cooldown ends cooldown_period after the last emission that passed
\* the gate; an emission at or after that instant passes and records its own
\* time.
C17_SuppressedKeepsClock ==
  emission.n > 0 =>
    /\ InCooldown => /\ ~emission.posted
                     /\ recent_alerts[emission.key] = emission.before
                     /\ window[emission.key].at = emission.before
    /\ ~InCooldown => /\ emission.posted
                      /\ recent_alerts[emission.key] = emission.at
    /\ \A k \in DOMAIN recent_alerts \ {emission.key} :
         recent_alerts[k] = window[k].at

\* an emission at the very instant the cooldown ends, counted from the
\* emission that passed and not from the suppressed one after it
C17_Witness ==
  /\ emission.n > 0 /\ emission.posted
  /\ emission.before # None /\ emission.at = emission.before + cooldown_period
  /\ emission.prev.emitted >= 2

\* the key of the spec: alert type, pattern discriminator, number of wallets
KeyOf(alert) == <<alert.alert_type, alert.pattern, Len(alert.wallet_addresses)>>
\* the cooldowns that were running when the last emission came
Running ==
  {window[k] : k \in DOMAIN window \ {emission.key}}
    \cup (IF emission.prev = NoWindow THEN {} ELSE {emission.prev})

\* C18: an alert is suppressed exactly when an alert of equal key passed the
\* gate less than cooldown_period earlier, whatever the wallets of the two
\* are; alerts of different keys do not suppress each other.
C18_DecidedByKey ==
  emission.n > 0 =>
    (~emission.posted <=>
       \E w \in Running : /\ KeyOf(w.alert) = KeyOf(emission.alert)
                          /\ emission.at - w.at < cooldown_period)

\* an alert was suppressed by one of other wallets, and an alert of another
\* key passed while that cooldown was running
C18_Witness ==
  /\ emission.n > 0 /\ ~emission.posted
  /\ emission.alert.wallet_addresses # emission.prev.alert.wallet_addresses
  /\ \E k \in DOMAIN window \ {emission.key} :
       window[k].at >= emission.before /\ window[k].at < emission.before + cooldown_period

\* ======================================================================
\* QuantumEmergencyDetector: the four detectors and the severity of a surge
\* (specification SpecDetector)
\* ======================================================================
\* Times are whole seconds.  Balances and values are whole BTC (the code
\* divides satoshis by 100_000_000).  _calculate_severity takes two floats and
\* compares them with whole numbers only: each is given by its integer part.
\* A confidence is given in hundredths.
dormancy_threshold == 365
emergency_window == 30
min_wallets_threshold == 5

\* a slip: `score > 60` for HIGH
_calculate_severity_exclusive(wallet_count, total_value_btc, avg_dormancy_years) ==
  LET count_score == IF wallet_count >= 20 THEN 40 ELSE IF wallet_count >= 10 THEN 30
                     ELSE IF wallet_count >= 5 THEN 20 ELSE 10
      value_score == IF total_value_btc >= 10000 THEN 40
                     ELSE IF total_value_btc >= 1000 THEN 30
                     ELSE IF total_value_btc >= 100 THEN 20 ELSE 10
      dormancy_score == IF avg_dormancy_years >= 10 THEN 20
                        ELSE IF avg_dormancy_years >= 5 THEN 15
                        ELSE IF avg_dormancy_years >= 2 THEN 10 ELSE 5
      score == count_score + value_score + dormancy_score
  IN  IF score >= 80 THEN "CRITICAL" ELSE IF score > 60 THEN "HIGH"
      ELSE IF score >= 40 THEN "MEDIUM" ELSE "LOW"

\* lines 254-297
_calculate_severity(wallet_count, total_value_btc, avg_dormancy_years) ==
  LET count_score == IF wallet_count >= 20 THEN 40 ELSE IF wallet_count >= 10 THEN 30
                     ELSE IF wallet_count >= 5 THEN 20 ELSE 10
      value_score == IF total_value_btc >= 10000 THEN 40
                     ELSE IF total_value_btc >= 1000 THEN 30
                     ELSE IF total_value_btc >= 100 THEN 20 ELSE 10
      dormancy_score == IF avg_dormancy_years >= 10 THEN 20
                        ELSE IF avg_dormancy_years >= 5 THEN 15
                        ELSE IF avg_dormancy_years >= 2 THEN 10 ELSE 5
      score == count_score + value_score + dormancy_score
  IN  IF score >= 80 THEN "CRITICAL" ELSE IF score >= 60 THEN "HIGH"
      ELSE IF score >= 40 THEN "MEDIUM" ELSE "LOW"

\* datetime.minute and datetime.second of a time
minute(t) == (t \div 60) % 60
second(t) == t % 60

\* lines 245-249 for a window of window_minutes: `minute % total_seconds / 60`
\* is (minute % total_seconds) / 60 minutes, that many seconds
window_start(t, window_minutes) == t - (minute(t) % (window_minutes * 60)) - second(t)

\* the keys of `groups` in the order they were inserted (lines 243-250)
RECURSIVE GroupStarts(_, _)
GroupStarts(activities, window_minutes) ==
  IF activities = <<>> THEN <<>>
  ELSE LET n == Len(activities)
           before == GroupStarts(SubSeq(activities, 1, n - 1), window_minutes)
           ws == window_start(activities[n].transaction_time, window_minutes)
       IN  IF ws \in Range(before) THEN before ELSE Append(before, ws)

_group_by_time_window(activities, window_minutes) ==
  LET starts == GroupStarts(activities, window_minutes)
  IN  [i \in DOMAIN starts |->
         SelectSeq(activities,
                   LAMBDA act : window_start(act.transaction_time, window_minutes) = starts[i])]

RECURSIVE SumOf(_, _)
SumOf(acts, field) ==
  IF acts = <<>> THEN 0 ELSE acts[1][field] + SumOf(Tail(acts), field)

\* lines 92-116 for one group
SurgePattern(group_activities) ==
  LET total_value == SumOf(group_activities, "balance")
      count == Len(group_activities)
  IN  [pattern_type |-> "dormant_wallet_surge",
       severity |-> _calculate_severity(
                      count, total_value,
                      SumOf(group_activities, "dormancy_days") \div (count * 365)),
       confidence |-> Min(95, (count * 100) \div 10),
       affected_wallets |-> [i \in DOMAIN group_activities |-> group_activities[i].address],
       total_value |-> total_value]

\* a slip: a pattern for every group that is large enough
_detect_dormant_wallet_surge_of_every_group(activities) ==
  LET dormant_activities ==
        SelectSeq(activities, LAMBDA act : act.dormancy_days >= dormancy_threshold)
      time_groups == _group_by_time_window(dormant_activities, emergency_window)
      large == SelectSeq(time_groups, LAMBDA g : Len(g) >= min_wallets_threshold)
  IN  IF Len(dormant_activities) < min_wallets_threshold THEN <<>>
      ELSE [i \in DOMAIN large |-> SurgePattern(large[i])]

\* lines 77-118: the pattern of the first group that is large enough
_detect_dormant_wallet_surge(activities) ==
  LET dormant_activities ==
        SelectSeq(activities, LAMBDA act : act.dormancy_days >= dormancy_threshold)
      time_groups == _group_by_time_window(dormant_activities, emergency_window)
      large == {i \in DOMAIN time_groups : Len(time_groups[i]) >= min_wallets_threshold}
  IN  IF Len(dormant_activities) < min_wallets_threshold THEN <<>>
      ELSE IF large = {} THEN <<>>
      ELSE <<SurgePattern(time_groups[CHOOSE i \in large : \A j \in large : i <= j])>>

\* the sum of the squares of a field
RECURSIVE SumOfSquares(_, _)
SumOfSquares(acts, field) ==
  IF acts = <<>> THEN 0
  ELSE acts[1][field] * acts[1][field] + SumOfSquares(Tail(acts), field)

\* lines 133-137: np.var(amounts) / np.mean(amounts) ** 2 < 0.1, the quotient
\* being `inf` when the mean is not positive.  For n amounts of sum s and sum
\* of squares q the quotient is (n*q - s*s) / (s*s)
amount_variance_low(group_activities) ==
  LET n == Len(group_activities)
      s == SumOf(group_activities, "amount")
      q == SumOfSquares(group_activities, "amount")
  IN  s > 0 /\ 10 * (n * q - s * s) < s * s

\* lines 138-152 for one group
CoordinatedPattern(group_activities) ==
  [pattern_type |-> "coordinated_movement",
   severity |-> "HIGH",
   confidence |-> 80,
   affected_wallets |-> [i \in DOMAIN group_activities |-> group_activities[i].address],
   total_value |-> SumOf(group_activities, "balance")]

\* lines 120-154: the pattern of the first group of at least 5 activities
\* whose amounts vary little
_detect_coordinated_movements(activities) ==
  LET time_groups == _group_by_time_window(activities, 10)
      hits == {i \in DOMAIN time_groups :
                 /\ Len(time_groups[i]) >= 3
                 /\ amount_variance_low(time_groups[i])
                 /\ Len(time_groups[i]) >= 5}
  IN  IF Len(activities) < 3 THEN <<>>
      ELSE IF hits = {} THEN <<>>
      ELSE <<CoordinatedPattern(time_groups[CHOOSE i \in hits : \A j \in hits : i <= j])>>

\* line 158, in BTC
high_value_threshold == 100

SetMax(S) == CHOOSE x \in S : \A y \in S : y <= x
SetMin(S) == CHOOSE x \in S : \A y \in S : x <= y

\* a slip: `time_span < self.emergency_window`
_detect_value_concentration_strict(activities) ==
  LET high_value_activities ==
        SelectSeq(activities, LAMBDA act : act.balance >= high_value_threshold)
      times == {high_value_activities[i].transaction_time : i \in DOMAIN high_value_activities}
  IN  IF Len(high_value_activities) < 3 THEN <<>>
      ELSE IF SetMax(times) - SetMin(times) < emergency_window * 60
        THEN <<[pattern_type |-> "high_value_concentration",
                severity |-> "CRITICAL",
                confidence |-> 90,
                affected_wallets |-> [i \in DOMAIN high_value_activities |->
                                        high_value_activities[i].address],
                total_value |-> SumOf(high_value_activities, "balance")]>>
      ELSE <<>>

\* lines 156-189: the time span is that of all the high-value activities
_detect_value_concentration(activities) ==
  LET high_value_activities ==
        SelectSeq(activities, LAMBDA act : act.balance >= high_value_threshold)
      times == {high_value_activities[i].transaction_time : i \in DOMAIN high_value_activities}
  IN  IF Len(high_value_activities) < 3 THEN <<>>
      ELSE IF SetMax(times) - SetMin(times) <= emergency_window * 60
        THEN <<[pattern_type |-> "high_value_concentration",
                severity |-> "CRITICAL",
                confidence |-> 90,
                affected_wallets |-> [i \in DOMAIN high_value_activities |->
                                        high_value_activities[i].address],
                total_value |-> SumOf(high_value_activities, "balance")]>>
      ELSE <<>>

\* line 49
zscore_threshold == 3

\* the keys of `wallet_activities` in the order they were inserted (lines 196-198)
RECURSIVE WalletOrder(_)
WalletOrder(activities) ==
  IF activities = <<>> THEN <<>>
  ELSE LET n == Len(activities)
           before == WalletOrder(SubSeq(activities, 1, n - 1))
       IN  IF activities[n].address \in Range(before) THEN before
           ELSE Append(before, activities[n].address)

\* a transaction_time is a datetime: whole seconds and, where an activity
\* has them, microseconds
microsecond(act) == IF "microsecond" \in DOMAIN act THEN act.microsecond ELSE 0
NotAfter(act, other) ==
  \/ act.transaction_time < other.transaction_time
  \/ /\ act.transaction_time = other.transaction_time
     /\ microsecond(act) <= microsecond(other)
\* later - earlier, a timedelta
timedelta(earlier, later) ==
  LET seconds == later.transaction_time - earlier.transaction_time
      microseconds == microsecond(later) - microsecond(earlier)
  IN  IF microseconds < 0
        THEN [seconds |-> seconds - 1, microseconds |-> microseconds + 1000000]
      ELSE [seconds |-> seconds, microseconds |-> microseconds]

\* sorted(wallet_acts, key=lambda x: x.transaction_time), line 207
RECURSIVE InsertByTime(_, _)
InsertByTime(sorted_acts, act) ==
  IF sorted_acts = <<>> THEN <<act>>
  ELSE LET n == Len(sorted_acts)
       IN  IF NotAfter(sorted_acts[n], act)
             THEN Append(sorted_acts, act)
           ELSE Append(InsertByTime(SubSeq(sorted_acts, 1, n - 1), act), sorted_acts[n])
RECURSIVE SortedByTime(_)
SortedByTime(acts) ==
  IF acts = <<>> THEN <<>>
  ELSE InsertByTime(SortedByTime(SubSeq(acts, 1, Len(acts) - 1)), acts[Len(acts)])

\* lines 206-210
time_diffs(sorted_acts) ==
  [i \in 1..(Len(sorted_acts) - 1) |-> timedelta(sorted_acts[i], sorted_acts[i + 1])]

\* ----------------------------------------------------------------------
\* float64, the type of total_seconds() and of what np.mean and np.std
\* compute with: a positive number is m * 2^e, m a sequence of `precision`
\* binary digits that begins with 1 and e the exponent of the last digit
\* ----------------------------------------------------------------------
precision == 53
Zero == [m |-> <<>>, e |-> 0]

RECURSIVE IntBits(_)
IntBits(n) == IF n = 0 THEN <<>> ELSE Append(IntBits(n \div 2), n % 2)
RECURSIVE BitsInt(_)
BitsInt(bits) ==
  IF bits = <<>> THEN 0
  ELSE 2 * BitsInt(SubSeq(bits, 1, Len(bits) - 1)) + bits[Len(bits)]
Zeros(n) == [i \in 1..n |-> 0]
\* x + y, of two sequences of equal length: a carry leaves digit i when a
\* digit after it is 1 in both and the digits between are 1 in one of them
AddBits(x, y) ==
  LET Carry(i) ==
        IF \E j \in (i + 1)..Len(x) :
             /\ x[j] + y[j] = 2
             /\ \A l \in (i + 1)..(j - 1) : x[l] + y[l] = 1
          THEN 1 ELSE 0
      digits == [i \in 1..Len(x) |-> (x[i] + y[i] + Carry(i)) % 2]
  IN  IF Carry(0) = 1 THEN <<1>> \o digits ELSE digits
\* bits + 1
Inc(bits) == AddBits(bits, [i \in 1..Len(bits) |-> IF i = Len(bits) THEN 1 ELSE 0])

\* rounding to nearest, ties to even: `bits` are the digits kept, `half` the
\* first digit dropped, `sticky` whether a later dropped digit is not 0
RoundNearestEven(bits, e, half, sticky) ==
  IF half = 1 /\ (sticky \/ bits[precision] = 1)
    THEN LET up == Inc(bits)
         IN  IF Len(up) > precision THEN [m |-> SubSeq(up, 1, precision), e |-> e + 1]
             ELSE [m |-> up, e |-> e]
  ELSE [m |-> bits, e |-> e]

\* the first `precision` significant digits of bits / d by long division,
\* from digit `pos` of the dividend on, with remainder r so far
RECURSIVE LongDiv(_, _, _, _, _)
LongDiv(bits, pos, r, d, quotient) ==
  IF Len(quotient) = precision THEN [m |-> quotient, r |-> r, pos |-> pos]
  ELSE LET r2 == 2 * r + (IF pos <= Len(bits) THEN bits[pos] ELSE 0)
           q == IF r2 >= d THEN 1 ELSE 0
       IN  LongDiv(bits, pos + 1, r2 - q * d, d,
                   IF quotient = <<>> /\ q = 0 THEN quotient ELSE Append(quotient, q))

\* x / d for an integer d > 0, correctly rounded
true_divide(x, d) ==
  IF x.m = <<>> THEN Zero
  ELSE LET q == LongDiv(x.m, 1, 0, d, <<>>)
           half == IF 2 * q.r >= d THEN 1 ELSE 0
       IN  RoundNearestEven(q.m, x.e - ((q.pos - 1) - Len(x.m)), half,
                            2 * q.r - half * d # 0)

\* x + y, correctly rounded
float_add(x, y) ==
  IF x = Zero THEN y
  ELSE IF y = Zero THEN x
  ELSE LET hi == IF x.e >= y.e THEN x ELSE y
           lo == IF x.e >= y.e THEN y ELSE x
           shift == hi.e - lo.e
           sum == AddBits(hi.m \o Zeros(shift), Zeros(shift) \o lo.m)
           dropped == SubSeq(sum, precision + 1, Len(sum))
       IN  IF dropped = <<>> THEN [m |-> sum, e |-> lo.e]
           ELSE RoundNearestEven(SubSeq(sum, 1, precision), lo.e + Len(dropped),
                                 dropped[1],
                                 \E i \in 2..Len(dropped) : dropped[i] = 1)

\* x < n for an integer n
float_less(x, n) ==
  \/ x = Zero /\ 0 < n
  \/ /\ x # Zero
     /\ precision + x.e <= 30
     /\ BitsInt(SubSeq(x.m, 1, IF precision + x.e > 0 THEN precision + x.e ELSE 0)) < n

\* timedelta.total_seconds(): the microseconds of the timedelta / 10**6
total_seconds(td) ==
  true_divide([m |-> IntBits(td.seconds * 1000000 + td.microseconds), e |-> 0], 1000000)

\* the sum np.mean and np.std take of fewer than 9 numbers: they are added
\* in turn
RECURSIVE umr_sum(_)
umr_sum(xs) ==
  IF xs = <<>> THEN Zero
  ELSE float_add(umr_sum(SubSeq(xs, 1, Len(xs) - 1)), xs[Len(xs)])
\* np.mean(time_diffs), line 213
np_mean(xs) == true_divide(umr_sum(xs), Len(xs))
\* np.std(time_diffs) > 0, lines 214 and 217: np.std is the square root of
\* the mean of the squares of x - np.mean(xs), which is positive as soon as
\* one x differs from the mean computed
std_positive(xs) == \E i \in DOMAIN xs : xs[i] # np_mean(xs)

RECURSIVE SeqSum(_)
SeqSum(s) == IF s = <<>> THEN 0 ELSE Head(s) + SeqSum(Tail(s))

\* lines 213-224 for the k differences of one wallet, of sum S and sum of
\* squares Q: mean_diff = S/k and std_diff = sqrt(V)/k with V = k*Q - S*S, so
\* that zscore = D/sqrt(V) with D = 300*k - S.  The result is <<>> when no
\* pattern is appended, and else <<confidence>>, in hundredths, rounded down
ExactConfidence(diffs, limit) ==
  LET k == Len(diffs)
      S == SeqSum(diffs)
      V == k * SeqSum([i \in DOMAIN diffs |-> diffs[i] * diffs[i]]) - S * S
      D == limit * k - S
  IN  IF ~(V > 0 /\ D > 0) THEN <<>>                               \* line 217
      ELSE IF ~(D * D > zscore_threshold * zscore_threshold * V) THEN <<>>   \* line 220
      ELSE IF 4 * D * D >= 81 * V THEN <<90>>                      \* zscore / 5 >= 0.9
      ELSE <<CHOOSE c \in 0..89 : c * c * V <= 400 * D * D /\ 400 * D * D < (c + 1) * (c + 1) * V>>

\* lines 213-224 when a difference has a fraction of a second.  The sum and
\* the mean are rounded, so that the mean of equal differences can differ
\* from them in its last digits: std_diff is then positive and below
\* mean_diff * 2^-50, and zscore / 5 is far above 0.9 as soon as mean_diff is
\* below 300.  Differences that are not equal are within the integers only
\* when they are small
SubSecondConfidence(diffs) ==
  LET xs == [i \in DOMAIN diffs |-> total_seconds(diffs[i])]
  IN  IF \A i \in DOMAIN diffs : diffs[i] = diffs[1]
        THEN IF std_positive(xs) /\ float_less(np_mean(xs), 300) THEN <<90>> ELSE <<>>
      ELSE ExactConfidence([i \in DOMAIN diffs |->
                              diffs[i].seconds * 1000000 + diffs[i].microseconds],
                           300 * 1000000)

\* lines 213-224 for the differences of one wallet, timedeltas: whole
\* seconds are added, divided and compared without rounding
BurstConfidence(diffs) ==
  IF \A i \in DOMAIN diffs : diffs[i].microseconds = 0
    THEN ExactConfidence([i \in DOMAIN diffs |-> diffs[i].seconds], 300)
  ELSE SubSecondConfidence(diffs)

\* a slip: a wallet qualifies from 4 activities on
_detect_statistical_anomalies_from_four(activities) ==
  LET wallets == WalletOrder(activities)
      OfWallet(w) == SelectSeq(activities, LAMBDA act : act.address = w)
      PatternsOf(w) ==
        LET wallet_acts == OfWallet(w)
            confidence == BurstConfidence(time_diffs(SortedByTime(wallet_acts)))
        IN  IF Len(wallet_acts) < 2 THEN <<>>
            ELSE IF Len(wallet_acts) < 4 THEN <<>>
            ELSE IF confidence = <<>> THEN <<>>
            ELSE <<[pattern_type |-> "transaction_burst",
                    severity |-> "MEDIUM",
                    confidence |-> confidence[1],
                    affected_wallets |-> <<w>>,
                    total_value |-> wallet_acts[1].balance]>>
  IN  Concat([i \in DOMAIN wallets |-> PatternsOf(wallets[i])])

\* lines 191-235
_detect_statistical_anomalies(activities) ==
  LET wallets == WalletOrder(activities)
      OfWallet(w) == SelectSeq(activities, LAMBDA act : act.address = w)
      PatternsOf(w) ==
        LET wallet_acts == OfWallet(w)
            confidence == BurstConfidence(time_diffs(SortedByTime(wallet_acts)))
        IN  IF Len(wallet_acts) < 2 THEN <<>>
            ELSE IF Len(wallet_acts) < 5 THEN <<>>
            ELSE IF confidence = <<>> THEN <<>>
            ELSE <<[pattern_type |-> "transaction_burst",
                    severity |-> "MEDIUM",
                    confidence |-> confidence[1],
                    affected_wallets |-> <<w>>,
                    total_value |-> wallet_acts[1].balance]>>
  IN  Concat([i \in DOMAIN wallets |-> PatternsOf(wallets[i])])

\* lines 52-75: the patterns of the four detectors, in this order
analyze_recent_activity(activities) ==
  _detect_dormant_wallet_surge(activities)
    \o _detect_coordinated_movements(activities)
    \o _detect_value_concentration(activities)
    \o _detect_statistical_anomalies(activities)

\* the windows the detectors group by: lines 88 and 126
GroupWindows == {emergency_window, 10}

\* what is kept of one analysis: the batch, the patterns returned, and the
\* patterns returned for the first `base` activities of the batch alone
Extended(first, more) ==
  LET activities == first \o more
      patterns == analyze_recent_activity(activities)
  IN  [n |-> 1, activities |-> activities,
       patterns |-> patterns,
       grouped |-> FALSE,
       starts |-> [w \in GroupWindows |-> <<>>],
       groups |-> [w \in GroupWindows |-> <<>>],
       base |-> Len(first),
       base_patterns |-> IF more = <<>> THEN patterns ELSE analyze_recent_activity(first)]
Analysis(activities) == Extended(activities, <<>>)
\* with the groups _group_by_time_window makes of the batch for each window,
\* and their keys
Grouped(activities) ==
  [Analysis(activities) EXCEPT
     !.grouped = TRUE,
     !.starts = [w \in GroupWindows |-> GroupStarts(activities, w)],
     !.groups = [w \in GroupWindows |-> _group_by_time_window(activities, w)]]

\* the activities of a batch
TransactionTimes == {30 * k : k \in 0..MaxHalfMinutes}
DormancyDays == {364, 3650}
WalletNames == <<"w1", "w2", "w3", "w4", "w5", "w6", "w7">>
\* the i-th activity of a batch is of wallet i
ActivityKinds == [transaction_time : TransactionTimes, dormancy_days : DormancyDays]
Activity(i, kind) == [address |-> WalletNames[i], balance |-> 120, amount |-> 10,
                      transaction_time |-> kind.transaction_time,
                      dormancy_days |-> kind.dormancy_days]
\* the batch of n activities of the given kinds
ActivityList(n, kinds) == [i \in 1..n |-> Activity(i, kinds[i])]

AnalyzeRecentActivity ==
  /\ surge.n = 0 /\ sev.n = 0
  /\ \E n \in 0..MaxActivities : \E kinds \in [1..n -> ActivityKinds] :
       LET activities == ActivityList(n, kinds)
       IN  surge' = Analysis(activities)
  /\ UNCHANGED sev
  /\ UNCHANGED <<monitorVars, coordVars, pb, batch, limiterVars, alertVars, analysisVars, trackedVars, pollingVars, concurrentVars>>

\* batches whose groups are kept: activities a half minute, a minute, 10
\* minutes and an emergency window after the first
GroupTimes == {0, 30, 60, 600, 1800}
AnalyzeGroups ==
  /\ surge.n = 0 /\ sev.n = 0
  /\ \E n \in 0..MaxGrouped : \E times \in [1..n -> GroupTimes] :
       surge' = Grouped([i \in 1..n |->
                           Activity(i, [transaction_time |-> times[i],
                                        dormancy_days |-> 3650])])
  /\ UNCHANGED sev
  /\ UNCHANGED <<monitorVars, coordVars, pb, batch, limiterVars, alertVars, analysisVars, trackedVars, pollingVars, concurrentVars>>

\* batches of activities of different wallets that differ in amount: the
\* first ones within one calendar minute, the others a minute later or in
\* the next 10-minute window
Amounts == {0, 10, 15}
LaterTimes == {60, 600}
AmountActivity(i, amount, time) == [address |-> WalletNames[i], balance |-> 50,
                                    amount |-> amount,
                                    transaction_time |-> time,
                                    dormancy_days |-> 0]

AnalyzeAmounts ==
  /\ surge.n = 0 /\ sev.n = 0
  /\ \E n \in 0..MaxActivities : \E amounts \in [1..n -> Amounts] :
       \E first \in 0..n, later \in LaterTimes :
         LET activities == [i \in 1..n |->
                              AmountActivity(i, amounts[i], IF i <= first THEN 0 ELSE later)]
         IN  surge' = Analysis(activities)
  /\ UNCHANGED sev
  /\ UNCHANGED <<monitorVars, coordVars, pb, batch, limiterVars, alertVars, analysisVars, trackedVars, pollingVars, concurrentVars>>

\* batches of activities of different wallets that differ in balance and
\* time: 5, 30 and 40 minutes after the first
Balances == {99, 100}
BalanceTimes == {0, 300, 1800, 1801, 2400}
BalanceKinds == [transaction_time : BalanceTimes, balance : Balances]
BalanceActivity(i, kind) == [address |-> WalletNames[i], balance |-> kind.balance,
                             amount |-> 10,
                             transaction_time |-> kind.transaction_time,
                             dormancy_days |-> 0]

AnalyzeBalances ==
  /\ surge.n = 0 /\ sev.n = 0
  /\ \E n \in 0..MaxHighValue : \E kinds \in [1..n -> BalanceKinds] :
       LET activities == [i \in 1..n |-> BalanceActivity(i, kinds[i])]
       IN  surge' = Analysis(activities)
  /\ UNCHANGED sev
  /\ UNCHANGED <<monitorVars, coordVars, pb, batch, limiterVars, alertVars, analysisVars, trackedVars, pollingVars, concurrentVars>>

\* a batch of high-value activities, and the batch with more activities
\* after them
BaseTimes == {0, 1800}
ExtensionKinds == [transaction_time : {300, 1801}, balance : Balances]
AnalyzeExtended ==
  /\ surge.n = 0 /\ sev.n = 0
  /\ \E n \in 3..MaxHighValue, m \in 0..MaxExtension :
       \E times \in [1..n -> BaseTimes], kinds \in [1..m -> ExtensionKinds] :
         surge' = Extended(
                    [i \in 1..n |->
                       BalanceActivity(i, [transaction_time |-> times[i], balance |-> 100])],
                    [i \in 1..m |-> BalanceActivity(((n + i - 1) % Len(WalletNames)) + 1,
                                                     kinds[i])])
  /\ UNCHANGED sev
  /\ UNCHANGED <<monitorVars, coordVars, pb, batch, limiterVars, alertVars, analysisVars, trackedVars, pollingVars, concurrentVars>>

\* batches of the activities of one wallet, given by the gaps between them,
\* with or without those of a second wallet, in the order of time or against it
Gaps == {0, 10, 290, 295, 600}
RECURSIVE TimeAfter(_, _)
TimeAfter(gaps, i) == IF i = 0 THEN 0 ELSE TimeAfter(gaps, i - 1) + gaps[i]
WalletActivities(w, n, gaps) ==
  [i \in 1..n |-> [address |-> w, balance |-> 50, amount |-> 10,
                   transaction_time |-> TimeAfter(gaps, i - 1),
                   dormancy_days |-> 0]]
SecondWallet == {<<>>, <<10, 10, 10, 10>>, <<0, 0, 0, 10>>}
Reverse(s) == [i \in 1..Len(s) |-> s[Len(s) + 1 - i]]

AnalyzeWallets ==
  /\ surge.n = 0 /\ sev.n = 0
  /\ \E n \in 0..MaxActivities : \E gaps \in [1..(n - 1) -> Gaps] :
       \E other \in SecondWallet, backwards \in BOOLEAN :
         LET forward == WalletActivities("w1", n, gaps)
                          \o (IF other = <<>> THEN <<>>
                              ELSE WalletActivities("w2", Len(other) + 1, other))
             activities == IF backwards THEN Reverse(forward) ELSE forward
         IN  surge' = Analysis(activities)
  /\ UNCHANGED sev
  /\ UNCHANGED <<monitorVars, coordVars, pb, batch, limiterVars, alertVars, analysisVars, trackedVars, pollingVars, concurrentVars>>

\* batches of twice min_wallets_threshold dormant activities, the first ones
\* at one time and the others an emergency window later, in the order of
\* time or against it
AnalyzeTwoGroups ==
  /\ surge.n = 0 /\ sev.n = 0
  /\ \E first \in 0..(2 * min_wallets_threshold), backwards \in BOOLEAN :
       \E early \in TransactionTimes, dormancy_days \in DormancyDays :
         LET forward == [i \in 1..(2 * min_wallets_threshold) |->
                           [address |-> WalletNames[((i - 1) % Len(WalletNames)) + 1],
                            balance |-> 120, amount |-> 10,
                            transaction_time |->
                              IF i <= first THEN early ELSE early + emergency_window * 60,
                            dormancy_days |-> dormancy_days]]
             activities == IF backwards THEN Reverse(forward) ELSE forward
         IN  surge' = Analysis(activities)
  /\ UNCHANGED sev
  /\ UNCHANGED <<monitorVars, coordVars, pb, batch, limiterVars, alertVars, analysisVars, trackedVars, pollingVars, concurrentVars>>

ValuesBTC == {0, 99, 100, 101, 999, 1000, 1001, 9999, 10000, 10001}
CalculateSeverity ==
  /\ surge.n = 0 /\ sev.n = 0
  /\ \E wallet_count \in 0..MaxWallets : \E total_value_btc \in ValuesBTC :
       \E avg_dormancy_years \in 0..MaxYears :
         sev' = [n |-> 1, wallet_count |-> wallet_count,
                 total_value_btc |-> total_value_btc,
                 avg_dormancy_years |-> avg_dormancy_years,
                 severity |-> _calculate_severity(wallet_count, total_value_btc,
                                                  avg_dormancy_years)]
  /\ UNCHANGED surge
  /\ UNCHANGED <<monitorVars, coordVars, pb, batch, limiterVars, alertVars, analysisVars, trackedVars, pollingVars, concurrentVars>>

\* batches of one wallet whose activities are one interval apart, the
\* interval being microseconds, tenths of a second or near 300 seconds; the
\* batch is in time order or in the reverse order
RegularIntervals ==
  {[seconds |-> 0, microseconds |-> 1], [seconds |-> 0, microseconds |-> 7],
   [seconds |-> 0, microseconds |-> 11], [seconds |-> 0, microseconds |-> 100000],
   [seconds |-> 0, microseconds |-> 500000], [seconds |-> 299, microseconds |-> 999999],
   [seconds |-> 300, microseconds |-> 500000]}
RegularActivity(i, interval) ==
  [address |-> WalletNames[1], balance |-> 120, amount |-> 10,
   transaction_time |-> i * interval.seconds + (i * interval.microseconds) \div 1000000,
   microsecond |-> (i * interval.microseconds) % 1000000,
   dormancy_days |-> 364]
AnalyzeRegular ==
  /\ surge.n = 0 /\ sev.n = 0
  /\ \E n \in 5..MaxRegular : \E interval \in RegularIntervals : \E backwards \in BOOLEAN :
       surge' = Analysis([i \in 1..n |->
                            RegularActivity(IF backwards THEN n - i ELSE i - 1, interval)])
  /\ UNCHANGED sev
  /\ UNCHANGED <<monitorVars, coordVars, pb, batch, limiterVars, alertVars, analysisVars, trackedVars, pollingVars, concurrentVars>>

NextDetector ==
  \/ AnalyzeRecentActivity \/ AnalyzeAmounts \/ AnalyzeBalances \/ AnalyzeWallets
  \/ AnalyzeTwoGroups \/ AnalyzeExtended \/ AnalyzeGroups \/ AnalyzeRegular
  \/ CalculateSeverity

SpecDetector == Init /\ [][NextDetector]_vars

\* the dormant activities of the batch, and whether min_wallets_threshold of
\* them lie within one emergency window
Dormant == {i \in DOMAIN surge.activities :
              surge.activities[i].dormancy_days >= dormancy_threshold}
SurgeInBatch ==
  \E i \in Dormant :
    LET t0 == surge.activities[i].transaction_time
    IN  Cardinality({j \in Dormant :
                       /\ surge.activities[j].transaction_time >= t0
                       /\ surge.activities[j].transaction_time < t0 + emergency_window * 60})
          >= min_wallets_threshold

\* C19: a batch with min_wallets_threshold dormant activities within one
\* emergency window yields a dormant_wallet_surge pattern of confidence
\* min(0.95, count/10) and of the severity of _calculate_severity; five
\* activities dormant for 3650 days with 600 BTC in all give HIGH and 0.5.
C19_SurgeDetected ==
  (surge.n > 0 /\ SurgeInBatch) =>
    /\ surge.patterns # <<>>
    /\ LET p == surge.patterns[1]
           count == Len(p.affected_wallets)
       IN  /\ p.pattern_type = "dormant_wallet_surge"
           /\ count >= min_wallets_threshold
           /\ p.confidence = Min(95, count * 10)
           /\ (count = 5 /\ p.total_value = 600 /\ Cardinality(Dormant) = 5)
                => (p.severity = "HIGH" /\ p.confidence = 50)

\* the scoring of the spec: points for each threshold that is reached
Points(x, thresholds, step) ==
  step * (1 + Cardinality({th \in thresholds : x >= th}))
ReferenceScore(wallet_count, btc, years) ==
  Points(wallet_count, {5, 10, 20}, 10) + Points(btc, {100, 1000, 10000}, 10)
    + Points(years, {2, 5, 10}, 5)
ReferenceSeverity(score) ==
  IF score >= 80 THEN "CRITICAL" ELSE IF score >= 60 THEN "HIGH"
  ELSE IF score >= 40 THEN "MEDIUM" ELSE "LOW"

\* C20: _calculate_severity is the reference scoring, every threshold being
\* an inclusive lower bound.
C20_SeverityIsReference ==
  sev.n > 0 =>
    sev.severity = ReferenceSeverity(
                     ReferenceScore(sev.wallet_count, sev.total_value_btc,
                                    sev.avg_dormancy_years))

\* every factor is exactly at a threshold and so is the score: 5 wallets,
\* 100 BTC, 10 years, 60 points
C20_Witness ==
  /\ sev.n > 0 /\ sev.wallet_count = 5 /\ sev.total_value_btc = 100
  /\ sev.avg_dormancy_years = 10 /\ sev.severity = "HIGH"

\* ----------------------------------------------------------------------
\* the patterns of one type that the analysis returned
PatternsOfType(type) == SelectSeq(surge.patterns, LAMBDA p : p.pattern_type = type)

RECURSIVE SumOver(_, _)
SumOver(S, F) ==
  IF S = {} THEN 0
  ELSE LET x == CHOOSE y \in S : TRUE IN F[x] + SumOver(S \ {x}, F)

\* n*n times the variance of the values F[i], i in I: the sum of the squared
\* differences of all pairs
Spread(I, F) ==
  LET pairs == {p \in I \X I : p[1] < p[2]}
  IN  SumOver(pairs, [p \in pairs |-> (F[p[1]] - F[p[2]]) * (F[p[1]] - F[p[2]])])

\* the activities of the batch in one 10-minute bucket, and whether the
\* bucket holds 5 activities whose amounts have a variance below a tenth of
\* the square of their mean
TenMinuteBucket(b) ==
  {i \in DOMAIN surge.activities : surge.activities[i].transaction_time \div 600 = b}
CoordinatedBucket(b) ==
  LET I == TenMinuteBucket(b)
      amounts == [i \in I |-> surge.activities[i].amount]
      total == SumOver(I, amounts)
  IN  /\ Cardinality(I) >= 5
      /\ total > 0
      /\ 10 * Spread(I, amounts) < total * total

\* C21: a coordinated_movement pattern, of severity HIGH and confidence 0.8,
\* is returned exactly when some 10-minute bucket of the batch holds at least
\* 5 activities with variance(amounts)/mean(amounts)^2 < 0.1; 5 activities of
\* one positive amount within 10 minutes are such a bucket.
C21_CoordinatedDetected ==
  surge.n > 0 =>
    LET found == PatternsOfType("coordinated_movement")
    IN  /\ (found # <<>>) <=>
             \E i \in DOMAIN surge.activities :
               CoordinatedBucket(surge.activities[i].transaction_time \div 600)
        /\ \A k \in DOMAIN found : found[k].severity = "HIGH" /\ found[k].confidence = 80

\* the activities of at least 100 BTC
HighValue == {i \in DOMAIN surge.activities : surge.activities[i].balance >= 100}
HighValueWithin(seconds) ==
  \A i, j \in HighValue :
     surge.activities[i].transaction_time - surge.activities[j].transaction_time <= seconds

ActivitiesOf(a) == {i \in DOMAIN surge.activities : surge.activities[i].address = a}
RECURSIVE Ascending(_)
Ascending(I) ==
  IF I = {} THEN <<>>
  ELSE LET m == CHOOSE i \in I : \A j \in I :
                  surge.activities[i].transaction_time <= surge.activities[j].transaction_time
       IN  <<surge.activities[m].transaction_time>> \o Ascending(I \ {m})
InterArrival(a) ==
  LET times == Ascending(ActivitiesOf(a))
  IN  [i \in 1..(Len(times) - 1) |-> times[i + 1] - times[i]]

\* the inter-arrival times of the address are all equal: its activities in
\* the order of their times (and of the batch, for equal times), and the
\* times between one and the next
Precedes(i, j) ==
  LET act == surge.activities[i]
      other == surge.activities[j]
  IN  \/ act.transaction_time < other.transaction_time
      \/ /\ act.transaction_time = other.transaction_time
         /\ \/ microsecond(act) < microsecond(other)
            \/ microsecond(act) = microsecond(other) /\ i < j
Intervals(a) ==
  LET I == ActivitiesOf(a)
  IN  {timedelta(surge.activities[i], surge.activities[j]) :
         <<i, j>> \in {p \in I \X I :
                         /\ Precedes(p[1], p[2])
                         /\ ~\E k \in I : Precedes(p[1], k) /\ Precedes(k, p[2])}}
EqualIntervals(a) == Cardinality(Intervals(a)) <= 1

\* with k differences, k*(300 - mean) and k*k*variance; a z-score exists when
\* the deviation is positive, and is then Shortfall/sqrt(Deviation2)
Shortfall(a) ==
  LET d == InterArrival(a) IN 300 * Len(d) - SumOver(DOMAIN d, d)
Deviation2(a) ==
  LET d == InterArrival(a) IN Spread(DOMAIN d, d)
Bursting(a) ==
  /\ Cardinality(ActivitiesOf(a)) >= 5
  /\ Shortfall(a) > 0                                   \* mean < 300
  /\ Deviation2(a) > 0
  /\ Shortfall(a) * Shortfall(a) > 9 * Deviation2(a)    \* z > 3
\* c hundredths is min(0.9, z/5), rounded down to hundredths
IsBurstConfidence(a, c) ==
  LET z2 == Shortfall(a) * Shortfall(a)
  IN  \/ c = 90 /\ 4 * z2 >= 81 * Deviation2(a)
      \/ /\ c < 90
         /\ c * c * Deviation2(a) <= 400 * z2
         /\ 400 * z2 < (c + 1) * (c + 1) * Deviation2(a)

C39_NoBurstForEqualIntervals ==
  surge.n > 0 =>
    \A i \in DOMAIN surge.activities :
      LET a == surge.activities[i].address
      IN  EqualIntervals(a) =>
            \A k \in DOMAIN surge.patterns :
              ~(/\ surge.patterns[k].pattern_type = "transaction_burst"
                /\ surge.patterns[k].affected_wallets = <<a>>)

C27_AddressFailureIsolated ==
  (pb.n = 1 /\ pb.got) =>
    /\ pb.analysed = Range(pb.order)
    /\ pb.analysed = pb.present \cap pb.tracked
    /\ [i \in DOMAIN pb.movements |-> pb.movements[i].address]
         = SelectSeq(pb.order, LAMBDA a : pb.infos[a].kind = "info")

\* the analysis of the first address failed and the second gave a movement
C27_Witness ==
  /\ pb.n = 1 /\ pb.got /\ Len(pb.order) = 2
  /\ pb.infos[pb.order[1]].kind # "info"
  /\ pb.infos[pb.order[2]].kind = "info"
  /\ Len(pb.movements) = 1 /\ pb.movements[1].address = pb.order[2]

\* the positions <<transaction, entry>> of the inputs and of the outputs of
\* the analysed block that reference the analysed address
RefInputs ==
  UNION {{<<k, i>> : i \in {j \in DOMAIN am.block.transactions[k].inputs :
                              am.block.transactions[k].inputs[j].address = am.address}} :
           k \in DOMAIN am.block.transactions}
RefOutputs ==
  UNION {{<<k, i>> : i \in {j \in DOMAIN am.block.transactions[k].outputs :
                              am.block.transactions[k].outputs[j].address = am.address}} :
           k \in DOMAIN am.block.transactions}
InputValue == [p \in RefInputs |-> am.block.transactions[p[1]].inputs[p[2]].value]
\* the one error the blocks of the model can cause: a spent value that is None
AnalysisError == \E p \in RefInputs : InputValue[p] = None

\* C28: _analyze_address_movement returns a Movement exactly when address
\* info was returned, an input or output of the block references the address
\* and nothing failed while analysing; otherwise it returns absent.
C28_MovementIffInfoAndEntry ==
  am.n = 1 =>
    /\ Len(am.result) <= 1
    /\ (am.result # <<>>) <=>
         /\ am.info.kind = "info"
         /\ RefInputs \cup RefOutputs # {}
         /\ ~AnalysisError
    /\ am.result # <<>> =>
         /\ am.result[1].address = am.address
         /\ am.result[1].block_height = am.block_height
         /\ am.result[1].previous_balance = am.info.balance

\* address info was returned, the block has entries, none references the address
C28_Witness ==
  /\ am.n = 1 /\ am.info.kind = "info" /\ am.result = <<>>
  /\ RefInputs \cup RefOutputs = {}
  /\ \E k \in DOMAIN am.block.transactions :
       am.block.transactions[k].inputs # <<>> /\ am.block.transactions[k].outputs # <<>>

\* C29: total_moved is the sum of the values of the inputs that reference the
\* address; the transaction list has one spend per referencing input and one
\* receive per referencing output, and the receives add nothing to total_moved.
C29_TotalMovedIsSpends ==
  (am.n = 1 /\ am.result # <<>>) =>
    LET m == am.result[1]
    IN  /\ m.total_moved = SumOver(RefInputs, InputValue)
        /\ Len(SelectSeq(m.transactions, LAMBDA t : t.type = "spend")) = Cardinality(RefInputs)
        /\ Len(SelectSeq(m.transactions, LAMBDA t : t.type = "receive")) = Cardinality(RefOutputs)
        /\ Len(m.transactions) = Cardinality(RefInputs) + Cardinality(RefOutputs)

\* a movement of three spends of different values and a receive
C29_Witness ==
  /\ am.n = 1 /\ am.result # <<>>
  /\ Cardinality(RefInputs) = 3 /\ Cardinality(RefOutputs) = 1
  /\ am.result[1].total_moved = 11
  /\ \E p \in RefOutputs : am.block.transactions[p[1]].outputs[p[2]].value = 4

\* ======================================================================
\* The monitoring loop of a started service (specification SpecLoop), and
\* stop() followed by start() (specification SpecService)
\* ======================================================================
\* C24: while the service runs, no failure of the provider or of persisting
\* ends or blocks the monitoring loop: the loop ends only once _running is
\* False, every check_new_blocks() and every _process_movements() gets the
\* loop back to its sleep, and after every sleep check_new_blocks() is
\* invoked again.
C24_LoopSurvivesFailures ==
  /\ [][\A t \in Loops : (pc[t] # "ended" /\ pc'[t] = "ended") => ~_running]_vars
  /\ \A t \in Loops :
       /\ (pc[t] \in {"await_tip", "await_block", "persist"}) ~> (pc[t] = "sleep")
       /\ (pc[t] = "sleep" /\ _running) ~> (pc[t] = "await_tip" \/ ~_running)
       /\ ([]_running) => []<>(pc[t] = "await_tip")

\* the loop has met a failed tip, a failed block and a failed commit, and
\* is in check_new_blocks() once more
C24_Witness ==
  /\ _running
  /\ journal.failed = {"tip", "block", "persist"}
  /\ journal.returned # {} /\ journal.committed = {}
  /\ \E t \in Loops : pc[t] = "await_tip"

\* C25: stop() leaves last_block_height and the tracked set as they are, and
\* a start() of a service whose last_block_height is set neither unsets it
\* nor moves it backward.
C25_CursorRetained ==
  [][/\ (_running /\ ~_running') => UNCHANGED <<last_block_height, dormant_addresses>>
     /\ ((\E t \in Loops : pc[t] = "none" /\ pc'[t] = "scheduled")
           /\ last_block_height # None)
          => (last_block_height' # None /\ last_block_height' >= last_block_height)]_vars

\* C26: every movement check_new_blocks() returned to the monitoring loop is
\* in the end among the activities analyze_recent_activity was applied to,
\* unless the service is stopped before.
C26_MovementAnalysed ==
  \A a \in Addresses, h \in Heights :
    (<<a, h>> \in journal.returned)
      ~> \/ ~_running
         \/ surge.n > 0 /\ \E i \in DOMAIN surge.activities :
                              surge.activities[i].address = a

\* C38: once stop() has returned, and with no start() after it, no
\* check_new_blocks() is begun; a loop ends only at its wake-up, so that the
\* iteration in progress is finished, and every loop ends.
C38_NoCheckAfterStop ==
  /\ [][\A t \in Loops :
         /\ (pc[t] # "await_tip" /\ pc'[t] = "await_tip") => _running
         /\ (pc[t] # "ended" /\ pc'[t] = "ended") => pc[t] \in {"scheduled", "sleep"}]_vars
  /\ \A t \in Loops :
       (~_running /\ pc[t] \notin {"none", "ended"}) ~> (pc[t] = "ended")

\* stop() has returned while the loop awaits a block of a check that has
\* returned a movement before
C38_Witness ==
  /\ ~_running
  /\ journal.returned # {}
  /\ \E t \in Loops : pc[t] = "await_block"

\* ======================================================================
\* The groups of _group_by_time_window (specification SpecDetector)
\* ======================================================================
\* a time truncated to a multiple of the window width
Truncated(t, window_minutes) == (t \div (window_minutes * 60)) * (window_minutes * 60)
\* the groups that hold an activity of time t
GroupsOf(t, window_minutes) ==
  {g \in DOMAIN surge.groups[window_minutes] :
     \E k \in DOMAIN surge.groups[window_minutes][g] :
       surge.groups[window_minutes][g][k].transaction_time = t}

\* C33: for the emergency window and for 10 minutes, two activities of a batch
\* are in the same group exactly when their times truncated to a multiple of
\* the window width are equal, every activity is in one group, and the key
\* of a group is that truncated time.
C33_FixedWidthBuckets ==
  (surge.n > 0 /\ surge.grouped) =>
    \A w \in GroupWindows :
      \A i, j \in DOMAIN surge.activities :
        LET ti == surge.activities[i].transaction_time
            tj == surge.activities[j].transaction_time
        IN  /\ Cardinality(GroupsOf(ti, w)) = 1
            /\ (GroupsOf(ti, w) = GroupsOf(tj, w)) <=> (Truncated(ti, w) = Truncated(tj, w))
            /\ \A g \in GroupsOf(ti, w) : surge.starts[w][g] = Truncated(ti, w)

\* the dormant activities of the group of activity i, and the first activity
\* of the batch whose group holds min_wallets_threshold dormant activities
DormantGroup(i) ==
  {j \in Dormant :
     window_start(surge.activities[j].transaction_time, emergency_window)
       = window_start(surge.activities[i].transaction_time, emergency_window)}
Qualifying == {i \in Dormant : Cardinality(DormantGroup(i)) >= min_wallets_threshold}
Severities == {"LOW", "MEDIUM", "HIGH", "CRITICAL"}

\* C34: an analysis returns at most one dormant_wallet_surge, of the first
\* group of the batch that qualifies, at most one coordinated_movement, at
\* most one high_value_concentration and at most one transaction_burst for
\* each address; every pattern has one of the four severities and a
\* confidence from 0 to 1.
C34_AtMostOneOfEach ==
  surge.n > 0 =>
    /\ \A type \in {"dormant_wallet_surge", "coordinated_movement",
                     "high_value_concentration"} : Len(PatternsOfType(type)) <= 1
    /\ \A k \in DOMAIN PatternsOfType("dormant_wallet_surge") :
         /\ Qualifying # {}
         /\ LET i == CHOOSE q \in Qualifying : \A r \in Qualifying : q <= r
                p == PatternsOfType("dormant_wallet_surge")[k]
            IN  /\ Len(p.affected_wallets) = Cardinality(DormantGroup(i))
                /\ p.affected_wallets[1] = surge.activities[i].address
    /\ \A k, l \in DOMAIN PatternsOfType("transaction_burst") :
         LET bursts == PatternsOfType("transaction_burst")
         IN  /\ Len(bursts[k].affected_wallets) = 1
             /\ bursts[k].affected_wallets = bursts[l].affected_wallets => k = l
    /\ \A k \in DOMAIN surge.patterns :
         /\ surge.patterns[k].severity \in Severities
         /\ surge.patterns[k].confidence \in 0..100

\* two groups of five dormant activities each, the later group first in the
\* batch: one surge pattern, of the later group, beside a pattern of
\* another type
C34_Witness ==
  /\ surge.n > 0
  /\ \E i, j \in Qualifying : DormantGroup(i) # DormantGroup(j)
  /\ Len(PatternsOfType("dormant_wallet_surge")) = 1
  /\ Len(surge.patterns) > 1
  /\ surge.activities[1].transaction_time
       > surge.activities[Len(surge.activities)].transaction_time
  /\ PatternsOfType("dormant_wallet_surge")[1].affected_wallets[1] = surge.activities[1].address

\* C36: when the analysis of a batch returns a high_value_concentration
\* pattern, the analysis of the batch with more activities after it returns
\* one too.
C36_ExtensionKeepsConcentration ==
  surge.n > 0 =>
    ((\E k \in DOMAIN surge.base_patterns :
        surge.base_patterns[k].pattern_type = "high_value_concentration")
       => PatternsOfType("high_value_concentration") # <<>>)

\* ======================================================================
\* MonitoringService._process_address_update (specification SpecPolling)
\* ======================================================================
\* Times are whole days; the calls of datetime.utcnow() within one
\* _process_address_update are less than a day apart.
PolledBalances == {0, 50, 120}
AddressInfos == [balance : PolledBalances, last_activity : {None} \cup 0..MaxDays]

\* lines 192-194 and 247-263: the row of a new address
_create_wallet_record(address_info) ==
  [current_balance |-> address_info.balance, last_activity |-> address_info.last_activity]

\* lines 186-239: the row after the call and <<the WalletActivity returned>>,
\* <<>> when the balance has not changed
_process_address_update(row, address_info, utc) ==
  LET found == IF row = <<>> THEN _create_wallet_record(address_info) ELSE row[1]
      change_amount == address_info.balance - found.current_balance      \* line 199
      updated == [current_balance |-> address_info.balance,              \* lines 216-217
                  last_activity |-> utc]
      dormancy_days == utc - updated.last_activity                       \* lines 221-224
  IN  IF found.current_balance # address_info.balance
        THEN [wallet |-> <<updated>>,
              result |-> <<[amount |-> IF change_amount < 0 THEN -change_amount
                                     ELSE change_amount,
                          balance |-> address_info.balance,
                          transaction_time |-> utc,
                          dormancy_days |-> dormancy_days,
                          last_activity_before |-> updated.last_activity]>>]  \* line 234
      ELSE [wallet |-> <<found>>, result |-> <<>>]

pollingFrame == <<monitorVars, coordVars, pb, batch, limiterVars, alertVars, detectorVars,
                  analysisVars, trackedVars, concurrentVars>>

ProcessAddressUpdate ==
  \E address_info \in AddressInfos :
    LET r == _process_address_update(wallet, address_info, today)
    IN  /\ address_info.last_activity # None => address_info.last_activity <= today
        /\ wallet' = r.wallet
        /\ activity' = [n |-> 1, before |-> wallet, address_info |-> address_info,
                        result |-> r.result]
        /\ UNCHANGED <<today, pollingFrame>>

DayPasses ==
  /\ today < MaxDays
  /\ today' = today + 1
  /\ UNCHANGED <<wallet, activity, pollingFrame>>

NextPolling == ProcessAddressUpdate \/ DayPasses

SpecPolling == Init /\ [][NextPolling]_vars

\* C35: the WalletActivity returned for a balance change has as
\* last_activity_before the last_activity the wallet had before the call, and
\* as dormancy_days the days from that time to the detection (0 when the wallet
\* had no activity before).
C35_ActivityCarriesPreviousState ==
  (activity.n > 0 /\ activity.result # <<>>) =>
    /\ activity.before # <<>>
    /\ activity.result[1].last_activity_before = activity.before[1].last_activity
    /\ activity.result[1].dormancy_days =
         IF activity.before[1].last_activity = None THEN 0
         ELSE activity.result[1].transaction_time - activity.before[1].last_activity

\* ======================================================================
\* The tracked set and the active wallets of the database
\* (specification SpecTracked)
\* ======================================================================
\* lines 200-204
update_monitored_addresses(tracked, new_addresses) == tracked \cup new_addresses
\* lines 209-213
remove_monitored_addresses(tracked, addresses) == tracked \ addresses
\* lines 218-224
get_stats ==
  [monitored_addresses |-> Cardinality(dormant_addresses),
   last_block_height |-> last_block_height,
   monitoring_active |-> last_block_height # None]

trackedFrame == <<_running, pc, frame, call, ncalls, fetched, journal, coordVars, pb,
                  batch, limiterVars, alertVars, detectorVars, analysisVars, pollingVars,
                  concurrentVars>>

\* initialize(): the query of lines 35-38 yields the active wallets
Refresh ==
  /\ \E tip \in TipOutcomes : initialize(is_active, tip)
  /\ refreshed' = TRUE
  /\ UNCHANGED <<is_active, trackedFrame>>

UpdateMonitoredAddresses ==
  /\ \E new_addresses \in SUBSET Addresses :
       dormant_addresses' = update_monitored_addresses(dormant_addresses, new_addresses)
  /\ refreshed' = FALSE
  /\ UNCHANGED <<last_block_height, h0, init_tip, is_active, trackedFrame>>

RemoveMonitoredAddresses ==
  /\ \E addresses \in SUBSET Addresses :
       dormant_addresses' = remove_monitored_addresses(dormant_addresses, addresses)
  /\ refreshed' = FALSE
  /\ UNCHANGED <<last_block_height, h0, init_tip, is_active, trackedFrame>>

\* a wallet is imported, or activated again (is_active=True)
Activate ==
  /\ \E a \in Addresses \ is_active : is_active' = is_active \cup {a}
  /\ refreshed' = FALSE
  /\ UNCHANGED <<last_block_height, dormant_addresses, h0, init_tip, trackedFrame>>

\* the database deactivates a wallet (is_active=False)
Deactivate ==
  /\ \E a \in is_active : is_active' = is_active \ {a}
  /\ refreshed' = FALSE
  /\ UNCHANGED <<last_block_height, dormant_addresses, h0, init_tip, trackedFrame>>

NextTracked ==
  \/ Refresh \/ UpdateMonitoredAddresses \/ RemoveMonitoredAddresses
  \/ Activate \/ Deactivate

SpecTracked == Init /\ [][NextTracked]_vars

\* C30: the tracked set is always a subset of the active wallets of the
\* database; right after initialize() it is that set and get_stats reports
\* its size.
C30_TrackedSubsetOfActive ==
  /\ dormant_addresses \subseteq is_active
  /\ refreshed => /\ dormant_addresses = is_active
                  /\ get_stats.monitored_addresses = Cardinality(is_active)

\* ======================================================================
\* _process_block while the tracked set is updated (specification SpecScan)
\* ======================================================================
\* a slip: the loop runs over the tracked addresses of the block as they
\* are now
iterated_live(snapshot, live) == live
\* line 111: `for address in active_dormant`, the set made at line 100
iterated(snapshot, live) == snapshot

scanFrame == <<last_block_height, _running, pc, frame, call, ncalls, h0, init_tip, fetched,
               journal, coordVars, pb, batch, limiterVars, alertVars, detectorVars,
               analysisVars, trackedVars, pollingVars, senders>>

\* _process_block up to the await of get_block (line 89)
ScanBegin ==
  /\ scan.pc \in {"idle", "done"}
  /\ scan' = [pc |-> "await_block"]
  /\ UNCHANGED <<dormant_addresses, scanFrame>>

\* get_block returns or raises; lines 90-102 run without an await
ScanBlock ==
  /\ scan.pc = "await_block"
  /\ \E out \in ChainOutcomes :
       LET found == active_dormant(out, dormant_addresses)
       IN  scan' = [pc |-> IF found = {} THEN "done" ELSE "await_info",
                    out |-> out,
                    tracked |-> dormant_addresses,
                    active_dormant |-> found,
                    size |-> Cardinality(found),
                    analysed |-> {}, moved |-> {}, aborted |-> FALSE,
                    live |-> dormant_addresses]
  /\ UNCHANGED <<dormant_addresses, scanFrame>>

\* one round of the loop of lines 111-125: the iterator is advanced (a set
\* whose size changed since the loop began raises RuntimeError, caught at
\* line 127), and the address is analysed, with the await of get_address_info;
\* `live` is the tracked set at the time of the last analysis
ScanNext ==
  /\ scan.pc = "await_info"
  /\ LET live == _extract_addresses_from_block(scan.out) \cap dormant_addresses
         over == iterated(scan.active_dormant, live)
     IN  IF Cardinality(over) # scan.size
           THEN scan' = [scan EXCEPT !.pc = "done", !.aborted = TRUE]
         ELSE IF over \subseteq scan.analysed
           THEN scan' = [scan EXCEPT !.pc = "done"]
         ELSE \E address \in over \ scan.analysed, info \in InfoOutcomes :
                scan' = [scan EXCEPT
                           !.analysed = @ \cup {address},
                           !.live = dormant_addresses,
                           !.moved = IF _analyze_address_movement(address, scan.out, 1, info) # <<>>
                                       THEN @ \cup {address} ELSE @]
  /\ UNCHANGED <<dormant_addresses, scanFrame>>

NextScan ==
  \/ ScanBegin \/ ScanBlock \/ ScanNext
  \/ UpdateMonitoredAddresses \/ RemoveMonitoredAddresses

SpecScan == Init /\ [][NextScan]_vars

\* C31: whatever update_monitored_addresses and remove_monitored_addresses do
\* while a block is processed, the scan is not aborted: the addresses analysed
\* are those of the intersection of the block's addresses with the tracked
\* set as it was when the block arrived, all of them once the scan is done.
C31_ScanUsesSnapshot ==
  scan.pc \in {"await_info", "done"} =>
    /\ ~scan.aborted
    /\ scan.active_dormant = PresentAddresses(scan.out) \cap scan.tracked
    /\ scan.analysed \subseteq scan.active_dormant
    /\ scan.moved \subseteq scan.analysed
    /\ scan.pc = "done" => scan.analysed = scan.active_dormant

\* both addresses of the block were tracked when it arrived and were removed
\* during the scan; the last one was analysed when none was tracked any more
C31_Witness ==
  /\ scan.pc = "done"
  /\ scan.active_dormant = Addresses /\ scan.analysed = Addresses
  /\ scan.moved = Addresses
  /\ scan.live = {}

\* ======================================================================
\* Concurrent send_alert() calls on one DiscordNotificationService
\* (specification SpecSenders)
\* ======================================================================
sendersFrame == <<monitorVars, coordVars, pb, batch, limiterVars, emission, window,
                  detectorVars, analysisVars, trackedVars, pollingVars, scan>>

\* the alerts of the concurrent calls: two of one key, one of another
SenderAlerts == {Alert("quantum_emergency", "dormant_wallet_surge", <<"a1">>),
                 Alert("quantum_emergency", "dormant_wallet_surge", <<"a2">>),
                 Alert("wallet_anomaly", "statistical_anomaly", <<"a1">>)}

\* a task calls send_alert(alert): lines 184-190 run up to the first await,
\* that of rate_limiter.acquire(), or return False
CallSendAlert ==
  /\ Len(senders) < MaxSenders
  /\ \E alert \in SenderAlerts :
       LET gate == _should_send_alert(alert, recent_alerts, utcnow)
       IN  /\ recent_alerts' = gate.recent_alerts
           /\ senders' = Append(senders,
                                [pc |-> IF gate.send THEN "acquire" ELSE "returned",
                                 alert |-> alert, at |-> utcnow, passed |-> gate.send,
                                 returned |-> FALSE])
  /\ UNCHANGED <<utcnow, sendersFrame>>

\* rate_limiter.acquire() returns; lines 193-203 run up to webhook.execute()
AcquireReturns ==
  /\ \E i \in DOMAIN senders :
       /\ senders[i].pc = "acquire"
       /\ senders' = [senders EXCEPT ![i].pc = "execute"]
  /\ UNCHANGED <<utcnow, recent_alerts, sendersFrame>>

\* webhook.execute() answers, or raises (caught at line 220)
ExecuteReturns ==
  /\ \E i \in DOMAIN senders, webhook \in WebhookOutcomes \cup {"raise"} :
       /\ senders[i].pc = "execute"
       /\ senders' = [senders EXCEPT ![i].pc = "returned",
                                     ![i].returned = (webhook = "204")]
  /\ UNCHANGED <<utcnow, recent_alerts, sendersFrame>>

\* the wall clock goes on while calls are in progress
SendersElapse ==
  /\ utcnow < MaxClock
  /\ utcnow' = utcnow + 1
  /\ UNCHANGED <<recent_alerts, senders, sendersFrame>>

NextSenders == CallSendAlert \/ AcquireReturns \/ ExecuteReturns \/ SendersElapse

SpecSenders == Init /\ [][NextSenders]_vars

\* C37: of the send_alert() calls of one key that pass the gate, no two do
\* so less than cooldown_period apart, whatever other calls are waiting in
\* the rate limiter or in the send; a call that does not pass the gate
\* returns False with no await.
C37_OnePassPerCooldown ==
  \A i, j \in DOMAIN senders :
    /\ (i < j /\ senders[i].passed /\ senders[j].passed
          /\ KeyOf(senders[i].alert) = KeyOf(senders[j].alert))
         => senders[j].at - senders[i].at >= cooldown_period
    /\ ~senders[i].passed => (senders[i].pc = "returned" /\ ~senders[i].returned)

\* a call waits in the rate limiter and another in the send; a third call, of
\* the key of the first and within its cooldown, is suppressed
C37_Witness ==
  /\ Len(senders) = 3
  /\ senders[1].pc = "acquire" /\ senders[2].pc = "execute"
  /\ KeyOf(senders[3].alert) = KeyOf(senders[1].alert)
  /\ senders[3].alert # senders[1].alert
  /\ senders[3].at - senders[1].at < cooldown_period
  /\ ~senders[3].passed

====
